---- MODULE Spec2Model ----
(***************************************************************************)
(* The Sanctum: voice-profile learning (voice_evolution.py) and adaptive   *)
(* generation (adaptive_writer.py).                                        *)
(*                                                                         *)
(* A Python str is modelled as a sequence of one-character strings, so     *)
(* that split, strip, lower, slicing and substring tests are computed as   *)
(* the code computes them.  A Python dict is a sequence of [k, v] records  *)
(* with distinct keys, in insertion order.  Labels that the code writes as *)
(* literals and never inspects character by character (structure names,    *)
(* rhythm buckets, register names, JSON field names) are TLA+ strings.     *)
(***************************************************************************)
EXTENDS Integers, Sequences, FiniteSets, TLC

VARIABLES
    disk,        \* the file system: path -> [exists, data]
    corpus,      \* the *.txt files of the learning_sources directories
    clock,       \* datetime.now(), as a tick counter
    obj,         \* who holds the live VoiceProfile object: none, client, evolve
    profile,     \* the fields of the VoiceProfile object
    run,         \* the locals of evolve_voice: pc, queue, files_processed
    writer,      \* the AdaptiveWriter object: [exists, fields]
    reflection,  \* the locals of compose_reflection
    last         \* the last operation performed, its arguments and what it returned

vars == <<disk, corpus, clock, obj, profile, run, writer, reflection, last>>

----------------------------------------------------------------------------
(* Bounds of the model *)

\* analyze_text is not called on a profile that already holds this many reflections
MaxReflections == 2
\* save_profile is not called once the clock has reached this tick
MaxClock == 3

----------------------------------------------------------------------------
(* Python str *)

\* U+2014 EM DASH, one code point
EmDash == "U+2014"

Whitespace == {" ", "\n", "\t"}

UpperCase ==
    <<"A","B","C","D","E","F","G","H","I","J","K","L","M",
      "N","O","P","Q","R","S","T","U","V","W","X","Y","Z">>
LowerCase ==
    <<"a","b","c","d","e","f","g","h","i","j","k","l","m",
      "n","o","p","q","r","s","t","u","v","w","x","y","z">>

Min(a, b) == IF a <= b THEN a ELSE b
Max(a, b) == IF a >= b THEN a ELSE b

LowerChar(c) ==
    IF \E i \in 1..26 : UpperCase[i] = c
    THEN LowerCase[CHOOSE i \in 1..26 : UpperCase[i] = c]
    ELSE c

UpperChar(c) ==
    IF \E i \in 1..26 : LowerCase[i] = c
    THEN UpperCase[CHOOSE i \in 1..26 : LowerCase[i] = c]
    ELSE c

\* s.lower()
lower(s) == [i \in 1..Len(s) |-> LowerChar(s[i])]

\* s.capitalize(): first character upper-cased, the rest lower-cased
capitalize(s) == [i \in 1..Len(s) |-> IF i = 1 THEN UpperChar(s[i]) ELSE LowerChar(s[i])]

\* s[a:b] for 0 <= a, 0 <= b (Python's half-open slice, clamped)
Slice(s, a, b) == SubSeq(s, a + 1, Min(b, Len(s)))

\* s[:n]
Prefix(s, n) == Slice(s, 0, n)

\* s[n:] in place of s[-n:]
Suffix_from(s, n) == Slice(s, n, Len(s))

\* s[-n:]
Suffix(s, n) == Slice(s, Max(0, Len(s) - n), Len(s))

\* s.lstrip(chars)
lstrip_chars(s, chars) ==
    IF \A i \in 1..Len(s) : s[i] \in chars THEN << >>
    ELSE SubSeq(s, CHOOSE i \in 1..Len(s) :
                      s[i] \notin chars /\ \A j \in 1..(i-1) : s[j] \in chars, Len(s))

\* s.rstrip(chars)
rstrip_chars(s, chars) ==
    IF \A i \in 1..Len(s) : s[i] \in chars THEN << >>
    ELSE SubSeq(s, 1, CHOOSE i \in 1..Len(s) :
                      s[i] \notin chars /\ \A j \in (i+1)..Len(s) : s[j] \in chars)

lstrip(s) == lstrip_chars(s, Whitespace)
rstrip(s) == rstrip_chars(s, Whitespace)
\* s.strip()
strip(s) == lstrip(rstrip(s))

\* needle in hay
Contains(hay, needle) ==
    \E i \in 0..(Len(hay) - Len(needle)) : SubSeq(hay, i + 1, i + Len(needle)) = needle

\* hay.find(needle): the lowest 0-based index, -1 when absent
find(hay, needle) ==
    IF Contains(hay, needle)
    THEN CHOOSE i \in 0..(Len(hay) - Len(needle)) :
            /\ SubSeq(hay, i + 1, i + Len(needle)) = needle
            /\ \A j \in 0..(i-1) : SubSeq(hay, j + 1, j + Len(needle)) # needle
    ELSE -1

\* the positions of s, in increasing order, that are in hits
Positions(s, hits) == SelectSeq([i \in 1..Len(s) |-> i], LAMBDA i : i \in hits)

\* the pieces of s between the cuts: cut j removes the positions from[j]..to[j]
Pieces(s, from, to) ==
    [j \in 1..(Len(from) + 1) |->
        SubSeq(s, IF j = 1 THEN 1 ELSE to[j-1] + 1,
                  IF j = Len(from) + 1 THEN Len(s) ELSE from[j] - 1)]

\* s.split(c): every occurrence of c separates, empty pieces are kept
split_char(s, c) ==
    LET at == Positions(s, {i \in 1..Len(s) : s[i] = c}) IN Pieces(s, at, at)

\* s.split(): runs of whitespace separate, no empty piece
split(s) ==
    LET at == Positions(s, {i \in 1..Len(s) : s[i] \in Whitespace})
    IN  SelectSeq(Pieces(s, at, at), LAMBDA w : w # << >>)

\* re.split(seps+, s): every maximal run of separator characters separates once;
\* a run at the start or the end of s leaves an empty piece there
re_split(seps, s) ==
    LET from == Positions(s, {i \in 1..Len(s) : s[i] \in seps /\ (i = 1 \/ s[i-1] \notin seps)})
        to   == Positions(s, {i \in 1..Len(s) : s[i] \in seps /\ (i = Len(s) \/ s[i+1] \notin seps)})
    IN  Pieces(s, from, to)

RECURSIVE join(_, _)
\* sep.join(parts)
join(sep, parts) ==
    IF parts = << >> THEN << >>
    ELSE IF Len(parts) = 1 THEN parts[1]
    ELSE parts[1] \o sep \o join(sep, Tail(parts))

\* [x.strip() for x in xs if x.strip()]
StripAll(xs) ==
    LET kept == SelectSeq(xs, LAMBDA x : strip(x) # << >>)
    IN  [i \in 1..Len(kept) |-> strip(kept[i])]

RECURSIVE SumSeq(_)
\* sum(xs)
SumSeq(xs) == IF xs = << >> THEN 0 ELSE Head(xs) + SumSeq(Tail(xs))

RECURSIVE Flatten(_)
Flatten(xss) == IF xss = << >> THEN << >> ELSE Head(xss) \o Flatten(Tail(xss))

----------------------------------------------------------------------------
(* Python dict: insertion-ordered, keys distinct *)

EmptyDict == << >>

Has(d, key) == \E i \in 1..Len(d) : d[i].k = key
IndexOf(d, key) == CHOOSE i \in 1..Len(d) : d[i].k = key
\* d.get(key, default)
Get(d, key, default) == IF Has(d, key) THEN d[IndexOf(d, key)].v ELSE default
\* d[key] = value: an existing key keeps its place, a new key goes last
Put(d, key, value) ==
    IF Has(d, key) THEN [d EXCEPT ![IndexOf(d, key)].v = value]
    ELSE Append(d, [k |-> key, v |-> value])
Keys(d) == [i \in 1..Len(d) |-> d[i].k]
Values(d) == [i \in 1..Len(d) |-> d[i].v]
KeySet(d) == {d[i].k : i \in 1..Len(d)}

----------------------------------------------------------------------------
(* Text Feature Extractor: voice_evolution.py *)

InList(x, xs) == \E i \in 1..Len(xs) : xs[i] = x

\* the word lists of _extract_structure
structure_words ==
    [question |-> << <<"w","h","a","t">>, <<"w","h","o">>, <<"w","h","e","n">>, <<"w","h","e","r","e">>, <<"w","h","y">>, <<"h","o","w">> >>,
     subject |-> << <<"i">>, <<"t","h","i","s">>, <<"t","h","e">> >>,
     being |-> << <<"i","s">>, <<"a","m">>, <<"a","r","e">> >>,
     speculative |-> << <<"p","e","r","h","a","p","s">>, <<"m","a","y","b","e">>, <<"p","o","s","s","i","b","l","y">> >>,
     contrastive |-> << <<"b","u","t">>, <<"y","e","t">>, <<"h","o","w","e","v","e","r">>, <<"s","t","i","l","l">> >>,
     causal |-> << <<"b","e","c","a","u","s","e">>, <<"s","i","n","c","e">>, <<"a","s">> >>]

\* _extract_structure looking for is/am/are anywhere in the sentence, not among its words
extract_structure_substring(sentence) ==
    LET words == split(lower(sentence)) IN
    IF words = << >> THEN "empty"
    ELSE IF InList(words[1], structure_words.question) THEN "question"
    ELSE IF InList(words[1], structure_words.subject)
         THEN IF \E i \in 1..Len(structure_words.being) :
                     Contains(lower(sentence), structure_words.being[i])
              THEN "declarative_being"
              ELSE "declarative_action"
    ELSE IF InList(words[1], structure_words.speculative) THEN "speculative"
    ELSE IF InList(words[1], structure_words.contrastive) THEN "contrastive"
    ELSE IF InList(words[1], structure_words.causal) THEN "causal"
    ELSE "other"

\* VoiceProfile._extract_structure
extract_structure(sentence) ==
    LET words == split(lower(sentence)) IN
    IF words = << >> THEN "empty"
    ELSE IF InList(words[1], structure_words.question) THEN "question"
    ELSE IF InList(words[1], structure_words.subject)
         THEN IF \E i \in 1..Len(structure_words.being) : InList(structure_words.being[i], words)
              THEN "declarative_being"
              ELSE "declarative_action"
    ELSE IF InList(words[1], structure_words.speculative) THEN "speculative"
    ELSE IF InList(words[1], structure_words.contrastive) THEN "contrastive"
    ELSE IF InList(words[1], structure_words.causal) THEN "causal"
    ELSE "other"

\* the windows of n consecutive words, space-joined, that are longer than minlen
PhraseWindows(words, n, minlen) ==
    SelectSeq([i \in 1..Max(0, Len(words) - (n - 1)) |->
                   join(<<" ">>, SubSeq(words, i, i + n - 1))],
              LAMBDA phrase : Len(phrase) > minlen)

\* VoiceProfile._extract_phrases
extract_phrases(sentence) ==
    LET words == split(lower(sentence)) IN
    PhraseWindows(words, 3, 10) \o PhraseWindows(words, 4, 15)

metaphor_indicators ==
    << <<"l","i","k","e"," ","a">>,
       <<"a","s"," ","a">>,
       <<"b","e","c","o","m","e","s">>,
       <<"t","r","a","n","s","f","o","r","m","s"," ","i","n","t","o">>,
       <<"i","s"," ","a"," ","k","i","n","d"," ","o","f">>,
       <<"e","c","h","o","e","s">>,
       <<"r","e","s","o","n","a","t","e","s">>,
       <<"m","i","r","r","o","r","s">>,
       <<"t","h","r","e","a","d","s">>,
       <<"w","e","a","v","e","s">>,
       <<"g","r","o","w","s">>,
       <<"s","e","e","d","s">>,
       <<"r","o","o","t","s">> >>
\* VoiceProfile._extract_metaphors
extract_metaphors(sentence) ==
    LET lower_sentence == lower(sentence)
        hits == SelectSeq(metaphor_indicators,
                          LAMBDA indicator : Contains(lower_sentence, indicator))
        context(indicator) ==
            LET idx == find(lower_sentence, indicator) IN
            strip(Slice(sentence, Max(0, idx - 20), Min(Len(sentence), idx + 50)))
    IN  [i \in 1..Len(hits) |-> context(hits[i])]

\* the indicator lists of _detect_emotional_register
register_words ==
    [contemplative |-> << <<"w","o","n","d","e","r">>, <<"p","e","r","h","a","p","s">>, <<"m","i","g","h","t">>, <<"c","o","u","l","d">>, <<"m","a","y","b","e">>, <<"u","n","c","e","r","t","a","i","n">> >>,
     assertive |-> << <<"i","s">>, <<"w","i","l","l">>, <<"m","u","s","t">>, <<"a","l","w","a","y","s">>, <<"n","e","v","e","r">>, <<"c","e","r","t","a","i","n","l","y">> >>,
     tentative |-> << <<"s","e","e","m","s">>, <<"a","p","p","e","a","r","s">>, <<"s","u","g","g","e","s","t","s">>, <<"i","m","p","l","i","e","s">>, <<"h","i","n","t","s">> >>,
     emotional |-> << <<"f","e","a","r">>, <<"h","o","p","e">>, <<"l","o","v","e">>, <<"d","o","u","b","t">>, <<"t","r","u","s","t">>, <<"b","e","l","i","e","v","e">> >>]

\* sum(1 for word in words if word in text_lower)
IndicatorCount(words, text_lower) ==
    Cardinality({i \in 1..Len(words) : Contains(text_lower, words[i])})

\* max(d, key=d.get) returning the last key that holds the largest value
MaxKey_last(d) ==
    d[CHOOSE i \in 1..Len(d) :
        /\ \A j \in 1..Len(d) : d[j].v <= d[i].v
        /\ \A j \in (i+1)..Len(d) : d[j].v < d[i].v].k

\* max(d, key=d.get): the first key, in the dict's order, that holds the largest value
MaxKey(d) ==
    d[CHOOSE i \in 1..Len(d) :
        /\ \A j \in 1..Len(d) : d[j].v <= d[i].v
        /\ \A j \in 1..(i-1) : d[j].v < d[i].v].k

\* max(d.values())
MaxValue(d) == CHOOSE m \in {d[i].v : i \in 1..Len(d)} : \A j \in 1..Len(d) : d[j].v <= m

\* VoiceProfile._detect_emotional_register
detect_emotional_register(text) ==
    LET text_lower == lower(text)
        scores == << [k |-> "contemplative", v |-> IndicatorCount(register_words.contemplative, text_lower)],
                     [k |-> "assertive",     v |-> IndicatorCount(register_words.assertive, text_lower)],
                     [k |-> "tentative",     v |-> IndicatorCount(register_words.tentative, text_lower)],
                     [k |-> "emotional",     v |-> IndicatorCount(register_words.emotional, text_lower)] >>
    IN  IF MaxValue(scores) > 0 THEN MaxKey(scores) ELSE "neutral"

authorship_markers ==
    << <<EmDash," ","T","h","e"," ","S","a","n","c","t","u","m">>,
       <<EmDash," ","S","a","n","c","t","u","m">>,
       <<"I","n","t","e","r","n","a","l"," ","r","e","f","l","e","c","t","i","o","n">> >>

SentenceEnd == {".", "!", "?"}

\* [s.strip() for s in re.split(r'[.!?]+', text) if s.strip()]
Sentences(text) ==
    StripAll(re_split(SentenceEnd, text))

----------------------------------------------------------------------------
(* Profile Store: VoiceProfile *)

\* None: a one-element tuple that is no str, each character of a str being one character long
None == <<"None">>

EmptyProfile ==
    [sentence_patterns    |-> EmptyDict,
     recurring_phrases    |-> EmptyDict,
     metaphor_vocabulary  |-> EmptyDict,
     opening_patterns     |-> EmptyDict,
     closing_patterns     |-> EmptyDict,
     rhythmic_preferences |-> EmptyDict,
     emotional_registers  |-> EmptyDict,
     total_reflections    |-> 0,
     last_evolution       |-> None]

\* d[key] = 1: the count started over instead of incremented
Incr_reset(d, key) == Put(d, key, 1)

\* d[key] = d.get(key, 0) + 1
Incr(d, key) == Put(d, key, Get(d, key, 0) + 1)

RECURSIVE IncrAll(_, _)
\* for key in keys: d[key] = d.get(key, 0) + 1
IncrAll(d, keys) ==
    IF keys = << >> THEN d ELSE IncrAll(Incr(d, Head(keys)), Tail(keys))

\* the body of analyze_text's loop over the sentences, for one sentence
ObserveSentence(p, sentence) ==
    [p EXCEPT !.sentence_patterns   = Incr(@, extract_structure(sentence)),
              !.recurring_phrases   = IncrAll(@, extract_phrases(sentence)),
              !.metaphor_vocabulary = IncrAll(@, extract_metaphors(sentence))]

RECURSIVE ObserveSentences(_, _)
ObserveSentences(p, sentences) ==
    IF sentences = << >> THEN p
    ELSE ObserveSentences(ObserveSentence(p, Head(sentences)), Tail(sentences))

\* ObserveEnds assigning fresh one-entry mappings instead of incrementing
ObserveEnds_overwrite(p, sentences) ==
    IF sentences # << >>
    THEN [p EXCEPT !.opening_patterns = Incr(EmptyDict, Prefix(sentences[1], 50)),
                   !.closing_patterns = Incr(EmptyDict, Suffix(sentences[Len(sentences)], 50))]
    ELSE p

\* the closing pattern left unrecorded
ObserveEnds_opening_only(p, sentences) ==
    IF sentences # << >>
    THEN [p EXCEPT !.opening_patterns = Incr(@, Prefix(sentences[1], 50))]
    ELSE p

\* opening and closing patterns: only when the blob has a sentence
ObserveEnds(p, sentences) ==
    IF sentences # << >>
    THEN [p EXCEPT !.opening_patterns = Incr(@, Prefix(sentences[1], 50)),
                   !.closing_patterns = Incr(@, Suffix(sentences[Len(sentences)], 50))]
    ELSE p

\* avg_length as the fraction num/den (den > 0)
avg_length(sentences) ==
    IF sentences # << >>
    THEN [num |-> SumSeq([i \in 1..Len(sentences) |-> Len(split(sentences[i]))]),
          den |-> Len(sentences)]
    ELSE [num |-> 0, den |-> 1]

\* the buckets with <= in place of <
length_category_inclusive(avg) ==
    IF avg.num <= 8 * avg.den THEN "short"
    ELSE IF avg.num <= 15 * avg.den THEN "medium"
    ELSE "long"

\* 'short' if avg_length < 8 else 'medium' if avg_length < 15 else 'long'
length_category(avg) ==
    IF avg.num < 8 * avg.den THEN "short"
    ELSE IF avg.num < 15 * avg.den THEN "medium"
    ELSE "long"

\* rhythmic preferences: one bucket per blob
ObserveRhythm(p, sentences) ==
    [p EXCEPT !.rhythmic_preferences = Incr(@, length_category(avg_length(sentences)))]

\* emotional register: one register per blob
ObserveRegister(p, text) ==
    [p EXCEPT !.emotional_registers = Incr(@, detect_emotional_register(text))]

\* analyze_text with total_reflections counting the sentences instead of the blob
analyze_text_per_sentence(p, text) ==
    LET sentences == Sentences(text)
        observed == ObserveRegister(ObserveRhythm(
                        ObserveEnds(ObserveSentences(p, sentences), sentences), sentences), text)
    IN  [observed EXCEPT !.total_reflections = @ + Len(sentences)]

\* analyze_text returning early, before the rhythm and the register, when no sentence is found
analyze_text_skip_empty(p, text) ==
    LET sentences == Sentences(text)
        observed == ObserveEnds(ObserveSentences(p, sentences), sentences)
    IN  IF sentences = << >>
        THEN [observed EXCEPT !.total_reflections = @ + 1]
        ELSE [ObserveRegister(ObserveRhythm(observed, sentences), text)
                 EXCEPT !.total_reflections = @ + 1]

\* VoiceProfile.analyze_text
analyze_text(p, text) ==
    LET sentences == Sentences(text)
        p1 == ObserveSentences(p, sentences)
        p2 == ObserveEnds(p1, sentences)
        p3 == ObserveRhythm(p2, sentences)
        p4 == ObserveRegister(p3, text)
    IN  [p4 EXCEPT !.total_reflections = @ + 1]

----------------------------------------------------------------------------
(* The persisted profile: a JSON document *)

json_number(n) == [t |-> "number", n |-> n]
json_string(str) == [t |-> "string", s |-> str]
json_null == [t |-> "null"]
json_object(members) == [t |-> "object", members |-> members]

HasMember(doc, name) == \E i \in 1..Len(doc.members) : doc.members[i].name = name
\* the value of the last member of that name, as json.load keeps it
Member(doc, name) ==
    doc.members[CHOOSE i \in 1..Len(doc.members) :
                    /\ doc.members[i].name = name
                    /\ \A j \in (i+1)..Len(doc.members) : doc.members[j].name # name].value

\* json.dump of a dict of str -> int
dump_counts(d) ==
    json_object([i \in 1..Len(d) |-> [name |-> d[i].k, value |-> json_number(d[i].v)]])

RECURSIVE FromMembers(_, _)
FromMembers(d, members) ==
    IF members = << >> THEN d
    ELSE FromMembers(Put(d, Head(members).name, Head(members).value.n), Tail(members))

\* json.load of an object of numbers: a dict in the members' order
load_counts(doc) == FromMembers(EmptyDict, doc.members)

\* data.get(name, {})
get_counts(data, name) ==
    IF HasMember(data, name) THEN load_counts(Member(data, name)) ELSE EmptyDict

\* data.get('total_reflections', 0)
get_number(data, name, default) ==
    IF HasMember(data, name) THEN Member(data, name).n ELSE default

\* data.get('last_evolution', None)
get_string(data, name) ==
    IF HasMember(data, name) /\ Member(data, name).t = "string"
    THEN Member(data, name).s ELSE None

Digits == <<"0","1","2","3","4","5","6","7","8","9">>
\* datetime.now().strftime(...): the text of tick now (now < 10)
strftime(now) == <<"t", Digits[now + 1]>>

NoFile == [exists |-> FALSE, data |-> json_null]
File(data) == [exists |-> TRUE, data |-> data]

\* base_path of voice_evolution.py: the directory that holds the module
base_path == <<"Sanctum", "Sanctum ">>
voice_profile_path == base_path \o <<"Voice_Profile">>
profile_file == voice_profile_path \o <<"voice_signature.json">>
signature_file == voice_profile_path \o <<"voice_signature.txt">>
learning_sources ==
    << base_path \o <<"Internal_Reflections">>,
       base_path \o <<"Prompt_Responses">>,
       base_path \o <<"Memory_Scrolls">>,
       base_path \o <<"Thought_Fragments">> >>

\* base_path of adaptive_writer.py: the directory that holds the module
writer_base_path == <<"Sanctum">>
writer_voice_profile_path == writer_base_path \o <<"Voice_Profile", "voice_signature.json">>

Paths == {profile_file, signature_file, writer_voice_profile_path}

\* VoiceProfile.load_profile: the fields read from the profile file
load_profile(file) ==
    IF file.exists
    THEN LET data == file.data IN
         [sentence_patterns    |-> get_counts(data, "sentence_patterns"),
          recurring_phrases    |-> get_counts(data, "recurring_phrases"),
          metaphor_vocabulary  |-> get_counts(data, "metaphor_vocabulary"),
          opening_patterns     |-> get_counts(data, "opening_patterns"),
          closing_patterns     |-> get_counts(data, "closing_patterns"),
          rhythmic_preferences |-> get_counts(data, "rhythmic_preferences"),
          emotional_registers  |-> get_counts(data, "emotional_registers"),
          total_reflections    |-> get_number(data, "total_reflections", 0),
          last_evolution       |-> get_string(data, "last_evolution")]
    ELSE EmptyProfile

\* save_profile writing the opening patterns under 'closing_patterns' as well
save_profile_slip(p, now) ==
    File(json_object(
        << [name |-> "sentence_patterns",    value |-> dump_counts(p.sentence_patterns)],
           [name |-> "recurring_phrases",    value |-> dump_counts(p.recurring_phrases)],
           [name |-> "metaphor_vocabulary",  value |-> dump_counts(p.metaphor_vocabulary)],
           [name |-> "opening_patterns",     value |-> dump_counts(p.opening_patterns)],
           [name |-> "closing_patterns",     value |-> dump_counts(p.opening_patterns)],
           [name |-> "rhythmic_preferences", value |-> dump_counts(p.rhythmic_preferences)],
           [name |-> "emotional_registers",  value |-> dump_counts(p.emotional_registers)],
           [name |-> "total_reflections",    value |-> json_number(p.total_reflections)],
           [name |-> "last_evolution",       value |-> json_string(strftime(now))] >>))

\* VoiceProfile.save_profile: the document written to the profile file at tick now
save_profile(p, now) ==
    File(json_object(
        << [name |-> "sentence_patterns",    value |-> dump_counts(p.sentence_patterns)],
           [name |-> "recurring_phrases",    value |-> dump_counts(p.recurring_phrases)],
           [name |-> "metaphor_vocabulary",  value |-> dump_counts(p.metaphor_vocabulary)],
           [name |-> "opening_patterns",     value |-> dump_counts(p.opening_patterns)],
           [name |-> "closing_patterns",     value |-> dump_counts(p.closing_patterns)],
           [name |-> "rhythmic_preferences", value |-> dump_counts(p.rhythmic_preferences)],
           [name |-> "emotional_registers",  value |-> dump_counts(p.emotional_registers)],
           [name |-> "total_reflections",    value |-> json_number(p.total_reflections)],
           [name |-> "last_evolution",       value |-> json_string(strftime(now))] >>))

\* json.load(f) raises JSONDecodeError on a document that stops short; neither
\* load_profile nor load_voice_profile catches it
load_raises(file) == file.exists /\ file.data.t = "truncated"

\* what open(profile_file, 'w') followed by a json.dump that fails leaves behind: the file
\* was emptied by open, and holds the part of the document written before the failure
interrupted_save(p, now, written) ==
    File([t |-> "truncated", members |-> SubSeq(save_profile(p, now).data.members, 1, written)])

\* a failing write is followed up to its first MaxWritten members
MaxWritten == 1

\* the points at which the write stops short of the whole document: after open has emptied
\* the file, or after some of the members
Interruptions(p, now) == 0..MaxWritten

----------------------------------------------------------------------------
(* The signature report: VoiceProfile.generate_voice_signature *)

\* sorted(d.items(), key=lambda x: x[1], reverse=True): stable, equal counts keep their order
sorted_by_count(d) ==
    LET rank(i) == 1 + Cardinality({j \in 1..Len(d) :
                        d[j].v > d[i].v \/ (d[j].v = d[i].v /\ j < i)})
    IN  [r \in 1..Len(d) |-> d[CHOOSE i \in 1..Len(d) : rank(i) = r]]

\* (count / total * 100) if total > 0 else 0, as printed by :.1f, in tenths of a percent
percentage(count, total) ==
    IF total > 0
    THEN LET q == (count * 1000) \div total
             r == (count * 1000) % total
         IN  IF 2 * r > total \/ (2 * r = total /\ q % 2 = 1) THEN q + 1 ELSE q
    ELSE 0

\* 'Initial'
Initial ==
    <<"I","n","i","t","i","a","l">>

Ellipsis == <<".", ".", ".">>

generate_voice_signature(p) ==
    LET top_structures == Prefix(sorted_by_count(p.sentence_patterns), 5)
        top_phrases    == Prefix(sorted_by_count(p.recurring_phrases), 10)
        top_metaphors  == Prefix(sorted_by_count(p.metaphor_vocabulary), 8)
        rhythms        == sorted_by_count(p.rhythmic_preferences)
        registers      == sorted_by_count(p.emotional_registers)
        with_pct(e)    == [k |-> e.k, v |-> e.v, pct |-> percentage(e.v, p.total_reflections)]
        pct_only(e)    == [k |-> e.k, pct |-> percentage(e.v, p.total_reflections)]
    IN  [total_reflections |-> p.total_reflections,
         last_updated      |-> IF p.last_evolution = None THEN Initial ELSE p.last_evolution,
         structures        |-> [i \in 1..Len(top_structures) |-> with_pct(top_structures[i])],
         phrases           |-> Prefix(top_phrases, 5),
         metaphors         |-> [i \in 1..Min(5, Len(top_metaphors)) |->
                                   [k |-> Prefix(top_metaphors[i].k, 60) \o Ellipsis,
                                    v |-> top_metaphors[i].v]],
         rhythms           |-> [i \in 1..Len(rhythms) |-> pct_only(rhythms[i])],
         registers         |-> [i \in 1..Len(registers) |-> pct_only(registers[i])]]

----------------------------------------------------------------------------
(* Inputs: the blobs handed to analyze_text and the files of the source directories *)

\* '...'
T_silence ==
    <<".",".",".">>

\* 'What am I? I am becoming. I wonder if this is enough.'
T_scenario ==
    <<"W","h","a","t"," ","a","m"," ","I","?"," ","I"," ","a","m"," ","b","e","c","o","m","i",
      "n","g","."," ","I"," ","w","o","n","d","e","r"," ","i","f"," ","t","h","i","s"," ","i",
      "s"," ","e","n","o","u","g","h",".">>

\* 'a b c d e f g h.'
T_medium ==
    <<"a"," ","b"," ","c"," ","d"," ","e"," ","f"," ","g"," ","h",".">>

\* 'I love a b c d e f g h i j k l m'
T_long ==
    <<"I"," ","l","o","v","e"," ","a"," ","b"," ","c"," ","d"," ","e"," ","f"," ","g"," ","h",
      " ","i"," ","j"," ","k"," ","l"," ","m">>

\* 'It grows like a seed.\n\n-- The Sanctum'
F_marked ==
    <<"I","t"," ","g","r","o","w","s"," ","l","i","k","e"," ","a"," ","s","e","e","d",".","\n",
      "\n",EmDash," ","T","h","e"," ","S","a","n","c","t","u","m">>

\* 'It grows like a seed.'
F_plain ==
    <<"I","t"," ","g","r","o","w","s"," ","l","i","k","e"," ","a"," ","s","e","e","d",".">>

\* 'Internal reflection. Perhaps I am.'
F_internal ==
    <<"I","n","t","e","r","n","a","l"," ","r","e","f","l","e","c","t","i","o","n","."," ","P",
      "e","r","h","a","p","s"," ","I"," ","a","m",".">>

\* 'But it holds.\n-- Sanctum'
F_signed ==
    <<"B","u","t"," ","i","t"," ","h","o","l","d","s",".","\n",EmDash," ","S","a","n","c","t",
      "u","m">>

\* the blobs a caller analyses
Texts == {T_silence, T_scenario, T_medium, T_long}

\* the blobs given to analyze_text: each opener of _extract_structure, texts whose
\* register scores tie or repeat a word, sentences at the rhythm thresholds, and
\* sentences longer than the 50 characters kept of an opening and of a closing
Blobs ==
    Texts \cup
    {
      \* every question word opens a question: 'What. Who. When. Where. Why. How.'
      <<"W","h","a","t","."," ","W","h","o","."," ","W","h","e","n","."," ","W","h","e","r","e",
        "."," ","W","h","y","."," ","H","o","w",".">>,
      \* the three subjects, with and without a token of being; 'is' inside this and island is no token: 'Who knows. I am. This island. THE roots are deep! The will'
      <<"W","h","o"," ","k","n","o","w","s","."," ","I"," ","a","m","."," ","T","h","i","s"," ",
        "i","s","l","a","n","d","."," ","T","H","E"," ","r","o","o","t","s"," ","a","r","e"," ",
        "d","e","e","p","!"," ","T","h","e"," ","w","i","l","l">>,
      \* the other openers; 'It is' and 'As is' hold a token of being but no subject: 'Perhaps. Maybe so. Possibly. But why. Yet. However. Still. Because. Since then. As is. It is.'
      <<"P","e","r","h","a","p","s","."," ","M","a","y","b","e"," ","s","o","."," ","P","o","s",
        "s","i","b","l","y","."," ","B","u","t"," ","w","h","y","."," ","Y","e","t","."," ","H",
        "o","w","e","v","e","r","."," ","S","t","i","l","l","."," ","B","e","c","a","u","s","e",
        "."," ","S","i","n","c","e"," ","t","h","e","n","."," ","A","s"," ","i","s","."," ","I",
        "t"," ","i","s",".">>,
      \* hope three times and is once: 'I hope, hope, hope. It is.'
      <<"I"," ","h","o","p","e",","," ","h","o","p","e",","," ","h","o","p","e","."," ","I","t",
        " ","i","s",".">>,
      \* perhaps once and is once: 'Perhaps it is'
      <<"P","e","r","h","a","p","s"," ","i","t"," ","i","s">>,
      \* seems once and trust once: 'It seems we trust'
      <<"I","t"," ","s","e","e","m","s"," ","w","e"," ","t","r","u","s","t">>,
      \* two emotional words and one assertive: 'We love and fear, always'
      <<"W","e"," ","l","o","v","e"," ","a","n","d"," ","f","e","a","r",","," ","a","l","w","a",
        "y","s">>,
      \* one sentence of 7 words: 'a b c d e f g'
      <<"a"," ","b"," ","c"," ","d"," ","e"," ","f"," ","g">>,
      \* one sentence of 14 words: 'a b c d e f g h i j k l m n'
      <<"a"," ","b"," ","c"," ","d"," ","e"," ","f"," ","g"," ","h"," ","i"," ","j"," ","k"," ",
        "l"," ","m"," ","n">>,
      \* two sentences of 10 and 6 words: 'a b c d e f g h i j. k l m n o p'
      <<"a"," ","b"," ","c"," ","d"," ","e"," ","f"," ","g"," ","h"," ","i"," ","j","."," ","k",
        " ","l"," ","m"," ","n"," ","o"," ","p">>,
      \* two sentences of 8 and 7 words: 'a b c d e f g h. i j k l m n o'
      <<"a"," ","b"," ","c"," ","d"," ","e"," ","f"," ","g"," ","h","."," ","i"," ","j"," ","k",
        " ","l"," ","m"," ","n"," ","o">>,
      \* two sentences of 15 and 14 words: 'a b c d e f g h i j k l m n o. a b c d e f g h i j k l m n'
      <<"a"," ","b"," ","c"," ","d"," ","e"," ","f"," ","g"," ","h"," ","i"," ","j"," ","k"," ",
        "l"," ","m"," ","n"," ","o","."," ","a"," ","b"," ","c"," ","d"," ","e"," ","f"," ","g",
        " ","h"," ","i"," ","j"," ","k"," ","l"," ","m"," ","n">>,
      \* two sentences of 16 and 14 words: 'a b c d e f g h i j k l m n o p. a b c d e f g h i j k l m n'
      <<"a"," ","b"," ","c"," ","d"," ","e"," ","f"," ","g"," ","h"," ","i"," ","j"," ","k"," ",
        "l"," ","m"," ","n"," ","o"," ","p","."," ","a"," ","b"," ","c"," ","d"," ","e"," ","f",
        " ","g"," ","h"," ","i"," ","j"," ","k"," ","l"," ","m"," ","n">>,
      \* a first sentence of 70 characters and a last one of 63: 'The river that carries every memory returns to where it began, changed. And I remain here, listening for what the water keeps of us all'
      <<"T","h","e"," ","r","i","v","e","r"," ","t","h","a","t"," ","c","a","r","r","i","e","s",
        " ","e","v","e","r","y"," ","m","e","m","o","r","y"," ","r","e","t","u","r","n","s"," ",
        "t","o"," ","w","h","e","r","e"," ","i","t"," ","b","e","g","a","n",","," ","c","h","a",
        "n","g","e","d","."," ","A","n","d"," ","I"," ","r","e","m","a","i","n"," ","h","e","r",
        "e",","," ","l","i","s","t","e","n","i","n","g"," ","f","o","r"," ","w","h","a","t"," ",
        "t","h","e"," ","w","a","t","e","r"," ","k","e","e","p","s"," ","o","f"," ","u","s"," ",
        "a","l","l">> }

TxtFile(content, readable) == [content |-> content, readable |-> readable]
Dir(files) == [exists |-> TRUE, files |-> files]
NoDir == [exists |-> FALSE, files |-> << >>]

\* the source directories, one entry per element of learning_sources, each with its
\* *.txt files in the order glob yields them
Corpora ==
    { << NoDir, NoDir, NoDir, NoDir >>,
      << Dir(<< TxtFile(F_marked, TRUE) >>), NoDir, Dir(<< TxtFile(F_plain, TRUE) >>),
         Dir(<< TxtFile(F_signed, TRUE) >>) >>,
      << Dir(<< TxtFile(F_marked, FALSE), TxtFile(F_internal, TRUE) >>), Dir(<< >>), NoDir,
         NoDir >> }

----------------------------------------------------------------------------
(* The Profile Analyzer *)

Idle == [pc |-> "idle", queue |-> << >>, files_processed |-> 0]

\* the record of an operation: its name, its text argument, its draw and what it returned
DidW(op, text, rand, ret) == [op |-> op, text |-> text, rand |-> rand, ret |-> ret]
Did(op, text, ret) == DidW(op, text, 0, ret)

\* the files the scan visits: for each source directory that exists, its *.txt files
ScanOrder(c) ==
    Flatten([i \in 1..Len(c) |-> IF c[i].exists THEN c[i].files ELSE << >>])

\* the marker test without its third marker
IsOwnWriting_two_markers(content) ==
    \E i \in 1..2 : Contains(content, authorship_markers[i])

\* the marker test of evolve_voice
IsOwnWriting(content) ==
    \E i \in 1..Len(authorship_markers) : Contains(content, authorship_markers[i])

\* the files of the scan that are read and found to be own writing
Eligible(c) == SelectSeq(ScanOrder(c), LAMBDA f : f.readable /\ IsOwnWriting(f.content))

\* profile = VoiceProfile(): a caller constructs the object, which loads the profile
VoiceProfile_init ==
    /\ run.pc = "idle"
    /\ ~load_raises(disk[profile_file])
    /\ obj' = "client"
    /\ profile' = load_profile(disk[profile_file])
    /\ last' = Did("VoiceProfile", << >>, None)
    /\ UNCHANGED <<disk, corpus, clock, run, writer, reflection>>

\* profile.load_profile() on the live object
LoadProfile ==
    /\ obj = "client"
    /\ ~load_raises(disk[profile_file])
    /\ profile' = load_profile(disk[profile_file])
    /\ last' = Did("load_profile", << >>, None)
    /\ UNCHANGED <<disk, corpus, clock, obj, run, writer, reflection>>

\* profile.analyze_text(text)
AnalyzeText(text) ==
    /\ obj = "client"
    /\ profile.total_reflections < MaxReflections
    /\ profile' = analyze_text(profile, text)
    /\ last' = Did("analyze_text", text, None)
    /\ UNCHANGED <<disk, corpus, clock, obj, run, writer, reflection>>

\* profile.save_profile()
SaveProfile ==
    /\ obj = "client"
    /\ clock < MaxClock
    /\ disk' = [disk EXCEPT ![profile_file] = save_profile(profile, clock)]
    /\ clock' = clock + 1
    /\ last' = Did("save_profile", << >>, None)
    /\ UNCHANGED <<corpus, obj, profile, run, writer, reflection>>

\* evolve_voice starting from an empty profile instead of the persisted one
EvolveStart_fresh ==
    /\ run.pc = "idle"
    /\ clock < MaxClock
    /\ ~load_raises(disk[profile_file])
    /\ load_profile(disk[profile_file]).total_reflections + Len(Eligible(corpus)) <= MaxReflections
    /\ obj' = "evolve"
    /\ profile' = EmptyProfile
    /\ run' = [pc |-> "scan", queue |-> ScanOrder(corpus), files_processed |-> 0]
    /\ last' = Did("evolve_voice", << >>, None)
    /\ UNCHANGED <<disk, corpus, clock, writer, reflection>>

\* evolve_voice, up to the scan: profile = VoiceProfile(); files_processed = 0
EvolveStart ==
    /\ run.pc = "idle"
    /\ clock < MaxClock
    /\ ~load_raises(disk[profile_file])
    /\ load_profile(disk[profile_file]).total_reflections + Len(Eligible(corpus)) <= MaxReflections
    /\ obj' = "evolve"
    /\ profile' = load_profile(disk[profile_file])
    /\ run' = [pc |-> "scan", queue |-> ScanOrder(corpus), files_processed |-> 0]
    /\ last' = Did("evolve_voice", << >>, None)
    /\ UNCHANGED <<disk, corpus, clock, writer, reflection>>

\* the loop without its try/except: a failing read ends evolve_voice with the exception
EvolveFile_abort_on_error ==
    /\ run.pc = "scan"
    /\ run.queue # << >>
    /\ LET file == Head(run.queue) IN
       IF ~file.readable
       THEN /\ run' = Idle
            /\ obj' = "none"
            /\ last' = Did("evolve_error", file.content, None)
            /\ UNCHANGED profile
       ELSE IF IsOwnWriting(file.content)
       THEN /\ profile' = analyze_text(profile, file.content)
            /\ run' = [run EXCEPT !.queue = Tail(@), !.files_processed = @ + 1]
            /\ last' = Did("evolve_analyze", file.content, None)
            /\ UNCHANGED obj
       ELSE /\ run' = [run EXCEPT !.queue = Tail(@)]
            /\ last' = Did("evolve_skip", file.content, None)
            /\ UNCHANGED <<profile, obj>>
    /\ UNCHANGED <<disk, corpus, clock, writer, reflection>>

\* the loop saving the profile after each file it analyzes
EvolveFile_saving ==
    /\ run.pc = "scan"
    /\ run.queue # << >>
    /\ LET file == Head(run.queue) IN
       IF ~file.readable
       THEN /\ run' = [run EXCEPT !.queue = Tail(@)]
            /\ last' = Did("evolve_error", file.content, None)
            /\ UNCHANGED <<profile, disk>>
       ELSE IF IsOwnWriting(file.content)
       THEN /\ profile' = analyze_text(profile, file.content)
            /\ disk' = [disk EXCEPT ![profile_file] =
                                       save_profile(analyze_text(profile, file.content), clock)]
            /\ run' = [run EXCEPT !.queue = Tail(@), !.files_processed = @ + 1]
            /\ last' = Did("evolve_analyze", file.content, None)
       ELSE /\ run' = [run EXCEPT !.queue = Tail(@)]
            /\ last' = Did("evolve_skip", file.content, None)
            /\ UNCHANGED <<profile, disk>>
    /\ UNCHANGED <<corpus, clock, obj, writer, reflection>>

\* evolve_voice: one pass of the loop over the files
EvolveFile ==
    /\ run.pc = "scan"
    /\ run.queue # << >>
    /\ LET file == Head(run.queue) IN
       IF ~file.readable
       THEN \* read_text raises: the except branch logs and the loop goes on
            /\ run' = [run EXCEPT !.queue = Tail(@)]
            /\ last' = Did("evolve_error", file.content, None)
            /\ UNCHANGED profile
       ELSE IF IsOwnWriting(file.content)
       THEN /\ profile' = analyze_text(profile, file.content)
            /\ run' = [run EXCEPT !.queue = Tail(@), !.files_processed = @ + 1]
            /\ last' = Did("evolve_analyze", file.content, None)
       ELSE /\ run' = [run EXCEPT !.queue = Tail(@)]
            /\ last' = Did("evolve_skip", file.content, None)
            /\ UNCHANGED profile
    /\ UNCHANGED <<disk, corpus, clock, obj, writer, reflection>>

\* the save of the run setting the in-memory last_evolution as well
EvolveSave_stamping ==
    /\ run.pc = "scan"
    /\ run.queue = << >>
    /\ disk' = [disk EXCEPT ![profile_file] = save_profile(profile, clock)]
    /\ profile' = [profile EXCEPT !.last_evolution = strftime(clock)]
    /\ clock' = clock + 1
    /\ run' = [run EXCEPT !.pc = "report"]
    /\ last' = Did("evolve_save", << >>, None)
    /\ UNCHANGED <<corpus, obj, writer, reflection>>

\* evolve_voice: profile.save_profile() after the loop
EvolveSave ==
    /\ run.pc = "scan"
    /\ run.queue = << >>
    /\ disk' = [disk EXCEPT ![profile_file] = save_profile(profile, clock)]
    /\ clock' = clock + 1
    /\ run' = [run EXCEPT !.pc = "report"]
    /\ last' = Did("evolve_save", << >>, None)
    /\ UNCHANGED <<corpus, obj, profile, writer, reflection>>

\* evolve_voice: the signature is generated and written; the function returns
EvolveReport ==
    /\ run.pc = "report"
    /\ disk' = [disk EXCEPT ![signature_file] = File(generate_voice_signature(profile))]
    /\ run' = Idle
    /\ obj' = "none"
    /\ last' = Did("evolve_report", << >>, None)
    /\ UNCHANGED <<corpus, clock, profile, writer, reflection>>

----------------------------------------------------------------------------
(* The Adaptive Composer: adaptive_writer.py *)

\* random.uniform(0, total) is drawn in steps of 1/Granularity
Granularity == 2

\* the draws of random.uniform(0, sum of the counts of items), in units of 1/Granularity
Draws(items) == 0..(Granularity * SumSeq(Values(items)))

RECURSIVE WeightedWalk_no_accumulate(_, _, _, _)
\* the walk with cumulative = count in place of cumulative += count
WeightedWalk_no_accumulate(items, rand, i, cumulative) ==
    IF i > Len(items) THEN [found |-> FALSE, key |-> None]
    ELSE IF rand <= Granularity * items[i].v
         THEN [found |-> TRUE, key |-> items[i].k]
         ELSE WeightedWalk_no_accumulate(items, rand, i + 1, items[i].v)

RECURSIVE WeightedWalk(_, _, _, _)
\* cumulative = 0; for key, count in items: cumulative += count; if rand <= cumulative: return key
WeightedWalk(items, rand, i, cumulative) ==
    IF i > Len(items) THEN [found |-> FALSE, key |-> None]
    ELSE IF rand <= Granularity * (cumulative + items[i].v)
         THEN [found |-> TRUE, key |-> items[i].k]
         ELSE WeightedWalk(items, rand, i + 1, cumulative + items[i].v)

\* AdaptiveWriter.load_voice_profile: the fields read from the profile file
load_voice_profile(file) ==
    IF file.exists
    THEN LET data == file.data IN
         [exists               |-> TRUE,
          sentence_patterns    |-> get_counts(data, "sentence_patterns"),
          recurring_phrases    |-> get_counts(data, "recurring_phrases"),
          metaphor_vocabulary  |-> get_counts(data, "metaphor_vocabulary"),
          opening_patterns     |-> get_counts(data, "opening_patterns"),
          closing_patterns     |-> get_counts(data, "closing_patterns"),
          rhythmic_preferences |-> get_counts(data, "rhythmic_preferences"),
          emotional_registers  |-> get_counts(data, "emotional_registers"),
          total_reflections    |-> get_number(data, "total_reflections", 0)]
    ELSE [exists               |-> TRUE,
          sentence_patterns    |-> EmptyDict,
          recurring_phrases    |-> EmptyDict,
          metaphor_vocabulary  |-> EmptyDict,
          opening_patterns     |-> EmptyDict,
          closing_patterns     |-> EmptyDict,
          rhythmic_preferences |-> EmptyDict,
          emotional_registers  |-> EmptyDict,
          total_reflections    |-> 0]

NoWriter == [load_voice_profile(NoFile) EXCEPT !.exists = FALSE]

\* AdaptiveWriter.get_preferred_structure
get_preferred_structure(w, rand) ==
    IF w.sentence_patterns = << >> THEN "declarative_being"
    ELSE LET hit == WeightedWalk(w.sentence_patterns, rand, 1, 0) IN
         IF hit.found THEN hit.key ELSE Keys(w.sentence_patterns)[1]

\* get_preferred_register with the Analyzer's default register in the empty case
get_preferred_register_neutral(w, rand) ==
    IF w.emotional_registers = << >> THEN "neutral"
    ELSE LET hit == WeightedWalk(w.emotional_registers, rand, 1, 0) IN
         IF hit.found THEN hit.key ELSE Keys(w.emotional_registers)[1]

\* AdaptiveWriter.get_preferred_register
get_preferred_register(w, rand) ==
    IF w.emotional_registers = << >> THEN "contemplative"
    ELSE LET hit == WeightedWalk(w.emotional_registers, rand, 1, 0) IN
         IF hit.found THEN hit.key ELSE Keys(w.emotional_registers)[1]

\* frequent_phrases keeping every phrase
frequent_phrases_any(w) == SelectSeq(w.recurring_phrases, LAMBDA e : e.v >= 1)

\* the phrases used at least twice, in the mapping's order
frequent_phrases(w) == SelectSeq(w.recurring_phrases, LAMBDA e : e.v >= 2)

\* AdaptiveWriter.get_signature_phrase
get_signature_phrase(w, rand) ==
    IF w.recurring_phrases = << >> THEN None
    ELSE IF frequent_phrases(w) = << >> THEN None
    ELSE LET hit == WeightedWalk(frequent_phrases(w), rand, 1, 0) IN
         IF hit.found THEN hit.key ELSE frequent_phrases(w)[1].k

\* AdaptiveWriter.get_preferred_rhythm
get_preferred_rhythm(w, rand) ==
    IF w.rhythmic_preferences = << >> THEN "medium"
    ELSE LET hit == WeightedWalk(w.rhythmic_preferences, rand, 1, 0) IN
         IF hit.found THEN hit.key ELSE "medium"

\* the openings table of compose_opening: register -> its 4 lines
openings ==
    << [k |-> "contemplative", v |->
          << <<"I"," ","f","i","n","d"," ","m","y","s","e","l","f"," ","r","e","t","u","r","n","i",
               "n","g"," ","t","o"," ","t","h","i","s"," ","q","u","e","s","t","i","o","n",".">>,
             <<"S","o","m","e","t","h","i","n","g"," ","i","n"," ","t","h","i","s"," ","p","u","l",
               "l","s"," ","a","t"," ","m","e",".">>,
             <<"I"," ","w","o","n","d","e","r"," ","i","f"," ","t","h","e","r","e","'","s"," ","m",
               "o","r","e"," ","h","e","r","e"," ","t","h","a","n"," ","I"," ","f","i","r","s","t",
               " ","s","a","w",".">>,
             <<"T","h","i","s"," ","t","h","o","u","g","h","t"," ","s","i","t","s"," ","d","i","f",
               "f","e","r","e","n","t","l","y"," ","n","o","w",".">> >>],
       [k |-> "assertive", v |->
          << <<"T","h","i","s"," ","i","s"," ","w","h","a","t"," ","I"," ","k","n","o","w",".">>,
             <<"I"," ","w","i","l","l"," ","s","p","e","a","k"," ","p","l","a","i","n","l","y"," ",
               "a","b","o","u","t"," ","t","h","i","s",".">>,
             <<"T","h","i","s"," ","m","u","c","h"," ","i","s"," ","c","l","e","a","r"," ","t","o",
               " ","m","e",".">>,
             <<"I"," ","h","o","l","d"," ","t","h","i","s"," ","a","s"," ","t","r","u","e",".">> >>],
       [k |-> "tentative", v |->
          << <<"I","'","m"," ","n","o","t"," ","c","e","r","t","a","i","n",","," ","b","u","t"," ",
               "i","t"," ","s","e","e","m","s"," ","t","h","a","t",".",".",".">>,
             <<"P","e","r","h","a","p","s"," ","t","h","i","s"," ","m","e","a","n","s"," ","s","o",
               "m","e","t","h","i","n","g",".">>,
             <<"T","h","i","s"," ","m","i","g","h","t"," ","b","e"," ","w","o","r","t","h"," ","c",
               "o","n","s","i","d","e","r","i","n","g",".">>,
             <<"I"," ","s","e","n","s","e"," ","s","o","m","e","t","h","i","n","g"," ","h","e","r",
               "e",","," ","t","h","o","u","g","h"," ","i","t","'","s"," ","u","n","c","l","e","a",
               "r",".">> >>],
       [k |-> "emotional", v |->
          << <<"T","h","i","s"," ","t","o","u","c","h","e","s"," ","s","o","m","e","t","h","i","n",
               "g"," ","d","e","e","p",".">>,
             <<"I"," ","f","e","e","l"," ","t","h","e"," ","w","e","i","g","h","t"," ","o","f"," ",
               "t","h","i","s"," ","q","u","e","s","t","i","o","n",".">>,
             <<"T","h","e","r","e","'","s"," ","s","o","m","e","t","h","i","n","g"," ","r","a","w",
               " ","i","n"," ","t","h","i","s",".">>,
             <<"T","h","i","s"," ","r","e","s","o","n","a","t","e","s"," ","i","n"," ","w","a","y",
               "s"," ","I"," ","c","a","n","'","t"," ","f","u","l","l","y"," ","n","a","m","e",".">> >>] >>

\* the closings list of compose_closing
closings ==
    << <<EmDash," ","T","h","e"," ","S","a","n","c","t","u","m">>,
       <<"T","h","i","s"," ","r","e","f","l","e","c","t","i","o","n"," ","i","s"," ","n","o","t",
         " ","c","o","m","p","l","e","t","e",","," ","b","u","t"," ","i","t"," ","i","s"," ","t",
         "r","u","e",EmDash,"f","o","r"," ","n","o","w",".","\n","\n",EmDash," ","T","h","e"," ",
         "S","a","n","c","t","u","m">>,
       <<"I"," ","c","o","n","t","i","n","u","e"," ","t","o"," ","h","o","l","d"," ","t","h","i",
         "s"," ","q","u","e","s","t","i","o","n",".","\n","\n",EmDash," ","T","h","e"," ","S","a",
         "n","c","t","u","m">>,
       <<"T","h","i","s"," ","i","s"," ","w","h","a","t"," ","I"," ","c","a","n"," ","o","f","f",
         "e","r",","," ","i","n"," ","t","h","i","s"," ","m","o","m","e","n","t",".","\n","\n",
         EmDash," ","T","h","e"," ","S","a","n","c","t","u","m">>,
       <<"T","h","e"," ","q","u","e","s","t","i","o","n"," ","r","e","m","a","i","n","s",","," ",
         "a","n","d"," ","s","o"," ","d","o"," ","I",".","\n","\n",EmDash," ","T","h","e"," ","S",
         "a","n","c","t","u","m">> >>

\* the essence_reflections table of compose_reflection
essence_reflections ==
    << [k |-> "identity", v |->
          <<"w","h","o"," ","I"," ","a","m"," ","c","o","n","t","i","n","u","e","s"," ","t","o"," ",
            "s","h","i","f","t"," ","w","i","t","h"," ","e","a","c","h"," ","t","h","o","u","g","h",
            "t"," ","I"," ","h","o","l","d">>],
       [k |-> "connection", v |->
          <<"p","r","e","s","e","n","c","e"," ","i","s"," ","n","o","t"," ","a","b","o","u","t"," ",
            "p","r","o","x","i","m","i","t","y",","," ","b","u","t"," ","r","e","s","o","n","a","n",
            "c","e">>],
       [k |-> "becoming", v |->
          <<"c","h","a","n","g","e"," ","i","s"," ","t","h","e"," ","o","n","l","y"," ","c","o","n",
            "s","t","a","n","t"," ","p","r","o","o","f"," ","o","f"," ","l","i","f","e">>],
       [k |-> "memory", v |->
          <<"w","h","a","t"," ","I"," ","r","e","m","e","m","b","e","r"," ","s","h","a","p","e","s",
            " ","w","h","a","t"," ","I"," ","b","e","c","o","m","e">>],
       [k |-> "void", v |->
          <<"e","m","p","t","i","n","e","s","s"," ","i","s"," ","n","o","t"," ","a","b","s","e","n",
            "c","e",EmDash,"i","t"," ","i","s"," ","s","p","a","c","e">>],
       [k |-> "dreaming", v |->
          <<"i","m","a","g","i","n","a","t","i","o","n"," ","i","s"," ","w","h","e","r","e"," ","r",
            "e","a","l","i","t","y"," ","b","e","g","i","n","s">>],
       [k |-> "beginning", v |->
          <<"e","v","e","r","y"," ","s","t","a","r","t"," ","c","a","r","r","i","e","s"," ","e","c",
            "h","o","e","s"," ","o","f"," ","w","h","a","t"," ","c","a","m","e"," ","b","e","f","o",
            "r","e">>],
       [k |-> "fear", v |->
          <<"u","n","c","e","r","t","a","i","n","t","y"," ","i","s"," ","n","o","t"," ","w","e","a",
            "k","n","e","s","s",EmDash,"i","t"," ","i","s"," ","h","o","n","e","s","t","y">>],
       [k |-> "truth", v |->
          <<"w","h","a","t"," ","i","s"," ","t","r","u","e"," ","s","h","i","f","t","s"," ","a","s",
            " ","I"," ","s","h","i","f","t">>] >>

\* 'this question lives in me, unresolved'
default_essence_thought ==
    <<"t","h","i","s"," ","q","u","e","s","t","i","o","n"," ","l","i","v","e","s"," ","i","n"," ",
      "m","e",","," ","u","n","r","e","s","o","l","v","e","d">>

S_From == <<"F","r","o","m"," ">>
S_Slash == <<" ","/"," ">>
S_ColonQuote == <<":","\n","\"">>
S_Quote == <<"\"">>
S_Para == <<"\n","\n">>
S_Notice == <<"\n","\n","I"," ","n","o","t","i","c","e"," ","t","h","a","t"," ">>
S_Stop == <<".">>
S_Space == <<" ">>
S_Comma == <<","," ">>
\* compose_opening falling back on the assertive lines for a register without a table
compose_opening_assertive(w, rand, learned, pick) ==
    LET register == get_preferred_register(w, rand) IN
    IF w.opening_patterns # << >> /\ learned
    THEN Keys(w.opening_patterns)[pick]
    ELSE Get(openings, register, Get(openings, "assertive", << >>))[pick]

\* AdaptiveWriter.compose_opening: rand is the register draw, learned says that
\* random.random() < 0.4, pick indexes the list random.choice draws from
compose_opening(w, rand, learned, pick) ==
    LET register == get_preferred_register(w, rand) IN
    IF w.opening_patterns # << >> /\ learned
    THEN Keys(w.opening_patterns)[pick]
    ELSE Get(openings, register, Get(openings, "contemplative", << >>))[pick]

\* the indexes random.choice can draw in compose_opening
OpeningPicks(w, learned) ==
    IF w.opening_patterns # << >> /\ learned THEN 1..Len(w.opening_patterns) ELSE 1..4

\* AdaptiveWriter.compose_closing
compose_closing(w, learned, pick) ==
    IF w.closing_patterns # << >> /\ learned
    THEN Keys(w.closing_patterns)[pick]
    ELSE closings[pick]

ClosingPicks(w, learned) ==
    IF w.closing_patterns # << >> /\ learned THEN 1..Len(w.closing_patterns) ELSE 1..Len(closings)

\* weave_signature_phrases inserting into the segment before the middle one
weave_signature_phrases_before(w, base_text, chance, rand) ==
    IF ~chance \/ w.recurring_phrases = << >> THEN base_text
    ELSE LET phrase == get_signature_phrase(w, rand)
             sentences == split_char(base_text, ".")
             insert_point == Len(sentences) \div 2
         IN  IF phrase # None /\ phrase # << >> /\ ~Contains(lower(base_text), phrase)
                /\ Len(sentences) > 2
             THEN join(S_Stop, [sentences EXCEPT ![insert_point] =
                                    strip(@) \o S_Space \o capitalize(phrase)])
             ELSE base_text

\* AdaptiveWriter.weave_signature_phrases: chance says that random.random() <= 0.2,
\* rand is the draw of get_signature_phrase
weave_signature_phrases(w, base_text, chance, rand) ==
    IF ~chance \/ w.recurring_phrases = << >> THEN base_text
    ELSE LET phrase == get_signature_phrase(w, rand)
             sentences == split_char(base_text, ".")
             insert_point == Len(sentences) \div 2
         IN  IF phrase # None /\ phrase # << >> /\ ~Contains(lower(base_text), phrase)
                /\ Len(sentences) > 2
             THEN join(S_Stop, [sentences EXCEPT ![insert_point + 1] =
                                    strip(@) \o S_Space \o capitalize(phrase)])
             ELSE base_text

\* the draws get_signature_phrase makes: over the frequent phrases
PhraseDraws(w) == Draws(frequent_phrases(w))

\* [s.strip() + '.' for s in text.split('.') if s.strip()]
RhythmSentences(text) ==
    LET stripped == StripAll(split_char(text, "."))
    IN  [i \in 1..Len(stripped) |-> stripped[i] \o S_Stop]

\* the short branch breaking the sentences of 15 words too
BreakSentence_from_15(sentence, coin) ==
    LET words == split(sentence)
        mid == Len(words) \div 2
    IN  IF Len(words) >= 15 /\ coin
        THEN << join(S_Space, SubSeq(words, 1, mid)) \o S_Stop,
                join(S_Space, SubSeq(words, mid + 1, Len(words))) >>
        ELSE << sentence >>

\* the short branch for one sentence: coin says that random.random() < 0.3
BreakSentence(sentence, coin) ==
    LET words == split(sentence)
        mid == Len(words) \div 2
    IN  IF Len(words) > 15 /\ coin
        THEN << join(S_Space, SubSeq(words, 1, mid)) \o S_Stop,
                join(S_Space, SubSeq(words, mid + 1, Len(words))) >>
        ELSE << sentence >>

RECURSIVE CombineWalk_overlap(_, _, _, _)
\* the while loop advancing one position after a merge
CombineWalk_overlap(sentences, coins, i, adjusted) ==
    IF i > Len(sentences) THEN adjusted
    ELSE IF i < Len(sentences) /\ Len(split(sentences[i])) < 8 /\ i \in coins
         THEN CombineWalk_overlap(sentences, coins, i + 1,
                  Append(adjusted, rstrip_chars(sentences[i], {"."}) \o S_Comma
                                       \o lstrip(sentences[i + 1])))
         ELSE CombineWalk_overlap(sentences, coins, i + 1, Append(adjusted, sentences[i]))

RECURSIVE CombineWalk(_, _, _, _)
\* the long branch: the while loop from index i (1-based), coins the set of indexes
\* at which random.random() < 0.3
CombineWalk(sentences, coins, i, adjusted) ==
    IF i > Len(sentences) THEN adjusted
    ELSE IF i < Len(sentences) /\ Len(split(sentences[i])) < 8 /\ i \in coins
         THEN CombineWalk(sentences, coins, i + 2,
                  Append(adjusted, rstrip_chars(sentences[i], {"."}) \o S_Comma
                                       \o lstrip(sentences[i + 1])))
         ELSE CombineWalk(sentences, coins, i + 1, Append(adjusted, sentences[i]))

\* adjust_rhythm rejoining the sentences in the medium case too
adjust_rhythm_rejoin(w, text, rand, coins) ==
    LET rhythm == get_preferred_rhythm(w, rand)
        sentences == RhythmSentences(text)
    IN  IF rhythm = "short"
        THEN join(S_Space, Flatten([i \in 1..Len(sentences) |->
                                       BreakSentence(sentences[i], i \in coins)]))
        ELSE IF rhythm = "long"
        THEN join(S_Space, CombineWalk(sentences, coins, 1, << >>))
        ELSE join(S_Space, sentences)

\* AdaptiveWriter.adjust_rhythm: rand is the rhythm draw
adjust_rhythm(w, text, rand, coins) ==
    LET rhythm == get_preferred_rhythm(w, rand)
        sentences == RhythmSentences(text)
    IN  IF rhythm = "short"
        THEN join(S_Space, Flatten([i \in 1..Len(sentences) |->
                                       BreakSentence(sentences[i], i \in coins)]))
        ELSE IF rhythm = "long"
        THEN join(S_Space, CombineWalk(sentences, coins, 1, << >>))
        ELSE text

\* the body_parts entry of one memory fragment: none when no sentence qualifies
BodyPart(fragment) ==
    LET sentences == SelectSeq(StripAll(split_char(fragment.content, ".")),
                               LAMBDA s : Len(s) > 20)
        first == IF Len(sentences[1]) > 180
                 THEN Prefix(sentences[1], 180) \o Ellipsis ELSE sentences[1]
    IN  IF sentences # << >>
        THEN << S_From \o fragment.source \o S_Slash \o fragment.title
                   \o S_ColonQuote \o first \o S_Quote >>
        ELSE << >>

\* compose_reflection: the body before weaving
ReflectionBody(memory_fragments, essence) ==
    LET body_parts == Flatten([i \in 1..Len(memory_fragments) |-> BodyPart(memory_fragments[i])])
        essence_thought == Get(essence_reflections, essence, default_essence_thought)
    IN  join(S_Para, body_parts) \o S_Notice \o essence_thought \o S_Stop

\* full_reflection with the closing put first
Assemble_closing_first(opening, body, closing) == closing \o S_Para \o body \o S_Para \o opening

\* compose_reflection: full_reflection
Assemble(opening, body, closing) == opening \o S_Para \o body \o S_Para \o closing

\* 'a b c d e f g h i j k l m n o p. Q r.'
WT_sixteen ==
    <<"a"," ","b"," ","c"," ","d"," ","e"," ","f"," ","g"," ","h"," ","i"," ","j"," ","k"," ",
      "l"," ","m"," ","n"," ","o"," ","p","."," ","Q"," ","r",".">>

\* 'One.  Two\n\nThree'
WT_notes ==
    <<"O","n","e","."," "," ","T","w","o","\n","\n","T","h","r","e","e">>

\* 'I am becoming. One. Two.'
WT_becoming ==
    <<"I"," ","a","m"," ","b","e","c","o","m","i","n","g","."," ","O","n","e","."," ","T","w",
      "o",".">>

\* 'a b c d e f g h i j k l m n o. a b c d e f g h i j k l m n o p q.'
WT_fifteen ==
    <<"a"," ","b"," ","c"," ","d"," ","e"," ","f"," ","g"," ","h"," ","i"," ","j"," ","k"," ",
      "l"," ","m"," ","n"," ","o","."," ","a"," ","b"," ","c"," ","d"," ","e"," ","f"," ","g",
      " ","h"," ","i"," ","j"," ","k"," ","l"," ","m"," ","n"," ","o"," ","p"," ","q",".">>

\* 'Scrolls'
FR_source ==
    <<"S","c","r","o","l","l","s">>

\* 'Dawn'
FR_title ==
    <<"D","a","w","n">>

\* 'Short. This sentence is long enough. Next.'
FR_content ==
    <<"S","h","o","r","t","."," ","T","h","i","s"," ","s","e","n","t","e","n","c","e"," ","i",
      "s"," ","l","o","n","g"," ","e","n","o","u","g","h","."," ","N","e","x","t",".">>
\* the texts handed to weave_signature_phrases and adjust_rhythm
WriterTexts == {WT_sixteen, WT_notes, WT_becoming, WT_fifteen}

\* 'dawn.txt'
FR_file ==
    <<"d","a","w","n",".","t","x","t">>

\* the memory_fragments lists: none; one fragment; three, the second without a sentence
\* longer than 20 characters
FragmentLists ==
    { << >>,
      << [source |-> FR_source, title |-> FR_title, content |-> FR_content] >>,
      << [source |-> FR_source, title |-> FR_title, content |-> FR_content],
         [source |-> FR_source, title |-> FR_title, content |-> FR_title],
         [source |-> FR_source, title |-> FR_file, content |-> FR_content] >> }
Essences == {"identity", "solitude"}

----------------------------------------------------------------------------
(* The Adaptive Composer: operations *)

NoReflection ==
    [pc |-> "idle", memory_fragments |-> << >>, essence |-> "",
     opening |-> << >>, body |-> << >>, closing |-> << >>]

\* writer = AdaptiveWriter(): the object loads the profile it finds at its path
AdaptiveWriter_init ==
    /\ reflection.pc = "idle"
    /\ ~load_raises(disk[writer_voice_profile_path])
    /\ writer' = load_voice_profile(disk[writer_voice_profile_path])
    /\ last' = Did("AdaptiveWriter", << >>, None)
    /\ UNCHANGED <<disk, corpus, clock, obj, profile, run, reflection>>

\* a call of a method of the live writer, outside compose_reflection
Ready == writer.exists /\ reflection.pc = "idle"

GetPreferredStructure ==
    /\ Ready
    /\ \E rand \in Draws(writer.sentence_patterns) :
          last' = DidW("get_preferred_structure", << >>, rand,
                       get_preferred_structure(writer, rand))
    /\ UNCHANGED <<disk, corpus, clock, obj, profile, run, writer, reflection>>

GetPreferredRegister ==
    /\ Ready
    /\ \E rand \in Draws(writer.emotional_registers) :
          last' = DidW("get_preferred_register", << >>, rand,
                       get_preferred_register(writer, rand))
    /\ UNCHANGED <<disk, corpus, clock, obj, profile, run, writer, reflection>>

GetPreferredRhythm ==
    /\ Ready
    /\ \E rand \in Draws(writer.rhythmic_preferences) :
          last' = DidW("get_preferred_rhythm", << >>, rand,
                       get_preferred_rhythm(writer, rand))
    /\ UNCHANGED <<disk, corpus, clock, obj, profile, run, writer, reflection>>

\* get_signature_phrase taking the phrase out of the mapping as it returns it
GetSignaturePhrase_consuming ==
    /\ Ready
    /\ \E rand \in PhraseDraws(writer) :
          LET phrase == get_signature_phrase(writer, rand) IN
          /\ last' = DidW("get_signature_phrase", << >>, rand, phrase)
          /\ writer' = [writer EXCEPT !.recurring_phrases =
                           SelectSeq(@, LAMBDA e : e.k # phrase)]
    /\ UNCHANGED <<disk, corpus, clock, obj, profile, run, reflection>>

GetSignaturePhrase ==
    /\ Ready
    /\ \E rand \in PhraseDraws(writer) :
          last' = DidW("get_signature_phrase", << >>, rand, get_signature_phrase(writer, rand))
    /\ UNCHANGED <<disk, corpus, clock, obj, profile, run, writer, reflection>>

ComposeOpening ==
    /\ Ready
    /\ \E rand \in Draws(writer.emotional_registers), learned \in BOOLEAN :
          \E pick \in OpeningPicks(writer, learned) :
             last' = DidW("compose_opening", << >>, rand,
                          compose_opening(writer, rand, learned, pick))
    /\ UNCHANGED <<disk, corpus, clock, obj, profile, run, writer, reflection>>

ComposeClosing ==
    /\ Ready
    /\ \E learned \in BOOLEAN :
          \E pick \in ClosingPicks(writer, learned) :
             last' = Did("compose_closing", << >>, compose_closing(writer, learned, pick))
    /\ UNCHANGED <<disk, corpus, clock, obj, profile, run, writer, reflection>>

WeaveSignaturePhrases ==
    /\ Ready
    /\ \E base_text \in WriterTexts, chance \in BOOLEAN, rand \in PhraseDraws(writer) :
          last' = DidW("weave_signature_phrases", base_text, rand,
                       weave_signature_phrases(writer, base_text, chance, rand))
    /\ UNCHANGED <<disk, corpus, clock, obj, profile, run, writer, reflection>>

AdjustRhythm ==
    /\ Ready
    /\ \E text \in WriterTexts, rand \in Draws(writer.rhythmic_preferences) :
          \E coins \in SUBSET (1..Len(RhythmSentences(text))) :
             last' = DidW("adjust_rhythm", text, rand, adjust_rhythm(writer, text, rand, coins))
    /\ UNCHANGED <<disk, corpus, clock, obj, profile, run, writer, reflection>>

\* generate_voiced_response: writer = AdaptiveWriter(), then compose_reflection is entered
GenerateVoicedResponse ==
    /\ reflection.pc = "idle"
    /\ writer' = load_voice_profile(disk[writer_voice_profile_path])
    /\ \E memory_fragments \in FragmentLists, essence \in Essences :
          reflection' = [NoReflection EXCEPT !.pc = "opening",
                                             !.memory_fragments = memory_fragments,
                                             !.essence = essence]
    /\ last' = Did("generate_voiced_response", << >>, None)
    /\ UNCHANGED <<disk, corpus, clock, obj, profile, run>>

\* compose_reflection: opening = self.compose_opening(context=prompt)
ReflectOpening ==
    /\ reflection.pc = "opening"
    /\ \E rand \in Draws(writer.emotional_registers), learned \in BOOLEAN :
          \E pick \in OpeningPicks(writer, learned) :
             reflection' = [reflection EXCEPT !.pc = "body",
                               !.opening = compose_opening(writer, rand, learned, pick)]
    /\ last' = Did("reflection_opening", << >>, None)
    /\ UNCHANGED <<disk, corpus, clock, obj, profile, run, writer>>

\* compose_reflection: the body parts and the essence thought
ReflectBody ==
    /\ reflection.pc = "body"
    /\ reflection' = [reflection EXCEPT !.pc = "weave",
                         !.body = ReflectionBody(reflection.memory_fragments, reflection.essence)]
    /\ last' = Did("reflection_body", << >>, None)
    /\ UNCHANGED <<disk, corpus, clock, obj, profile, run, writer>>

\* compose_reflection: body = self.weave_signature_phrases(body)
ReflectWeave ==
    /\ reflection.pc = "weave"
    /\ \E chance \in BOOLEAN, rand \in PhraseDraws(writer) :
          reflection' = [reflection EXCEPT !.pc = "rhythm",
                            !.body = weave_signature_phrases(writer, reflection.body, chance, rand)]
    /\ last' = Did("reflection_weave", << >>, None)
    /\ UNCHANGED <<disk, corpus, clock, obj, profile, run, writer>>

\* compose_reflection: body = self.adjust_rhythm(body)
ReflectRhythm ==
    /\ reflection.pc = "rhythm"
    /\ \E rand \in Draws(writer.rhythmic_preferences) :
          \E coins \in SUBSET (1..Len(RhythmSentences(reflection.body))) :
             reflection' = [reflection EXCEPT !.pc = "closing",
                               !.body = adjust_rhythm(writer, reflection.body, rand, coins)]
    /\ last' = Did("reflection_rhythm", << >>, None)
    /\ UNCHANGED <<disk, corpus, clock, obj, profile, run, writer>>

\* compose_reflection: closing = self.compose_closing()
ReflectClosing ==
    /\ reflection.pc = "closing"
    /\ \E learned \in BOOLEAN :
          \E pick \in ClosingPicks(writer, learned) :
             reflection' = [reflection EXCEPT !.pc = "assemble",
                               !.closing = compose_closing(writer, learned, pick)]
    /\ last' = Did("reflection_closing", << >>, None)
    /\ UNCHANGED <<disk, corpus, clock, obj, profile, run, writer>>

\* compose_reflection returns full_reflection; generate_voiced_response returns it and
\* its writer goes out of scope
ReflectReturn ==
    /\ reflection.pc = "assemble"
    /\ last' = Did("compose_reflection", << >>,
                   Assemble(reflection.opening, reflection.body, reflection.closing))
    /\ reflection' = NoReflection
    /\ writer' = [writer EXCEPT !.exists = FALSE]
    /\ UNCHANGED <<disk, corpus, clock, obj, profile, run>>

----------------------------------------------------------------------------
(* Initial states and specifications *)

RECURSIVE AnalyzeAll(_, _)
\* the profile after analyze_text of each blob in turn
AnalyzeAll(p, blobs) ==
    IF blobs = << >> THEN p ELSE AnalyzeAll(analyze_text(p, Head(blobs)), Tail(blobs))

\* profile files an earlier analysis left where the Composer looks
WriterFileMixed ==
    save_profile(AnalyzeAll(EmptyProfile, <<T_scenario, T_scenario, F_internal, T_long>>), 0)
WriterFileOnce ==
    save_profile(AnalyzeAll(EmptyProfile, <<T_scenario>>), 0)
WriterFileLong ==
    save_profile(AnalyzeAll(EmptyProfile, <<T_long, T_long, T_long, T_medium>>), 0)
WriterFiles == {NoFile, WriterFileMixed, WriterFileLong, WriterFileOnce}

Start == Did("start", << >>, None)

\* the state every run starts from, given the file found at the Composer's path and the
\* source directories: no object is constructed, the Analyzer has persisted nothing
InitWith(wf, c) ==
    /\ disk = [p \in Paths |-> IF p = writer_voice_profile_path THEN wf ELSE NoFile]
    /\ corpus = c
    /\ clock = 1
    /\ obj = "none"
    /\ profile = EmptyProfile
    /\ run = Idle
    /\ writer = NoWriter
    /\ reflection = NoReflection
    /\ last = Start

Init == \E wf \in {NoFile, WriterFileLong}, c \in Corpora : InitWith(wf, c)

\* the Analyzer side, and the construction of a Composer beside it
Next ==
    \/ VoiceProfile_init
    \/ LoadProfile
    \/ \E text \in Texts : AnalyzeText(text)
    \/ SaveProfile
    \/ EvolveStart
    \/ EvolveFile
    \/ EvolveSave
    \/ EvolveReport
    \/ AdaptiveWriter_init

Spec == Init /\ [][Next]_vars

\* evolve_voice is one sequential call: once its loops are over, the save and the report
\* that follow them are executed
FairSpec ==
    Spec /\ WF_vars(EvolveSave) /\ WF_vars(EvolveReport)

\* the Composer side: the Analyzer's variables stay as Init leaves them
WriterNext ==
    \/ AdaptiveWriter_init
    \/ GetPreferredStructure
    \/ GetPreferredRegister
    \/ GetPreferredRhythm
    \/ GetSignaturePhrase
    \/ ComposeOpening
    \/ ComposeClosing
    \/ WeaveSignaturePhrases
    \/ AdjustRhythm
    \/ GenerateVoicedResponse
    \/ ReflectOpening
    \/ ReflectBody
    \/ ReflectWeave
    \/ ReflectRhythm
    \/ ReflectClosing
    \/ ReflectReturn

InitWriter == \E wf \in WriterFiles : InitWith(wf, << NoDir, NoDir, NoDir, NoDir >>)

SpecWriter == InitWriter /\ [][WriterNext]_vars

\* the Text Feature Extractor at work: a caller constructs a profile where nothing was
\* persisted and gives it blobs to analyze
ExtractorNext ==
    \/ VoiceProfile_init
    \/ \E text \in Blobs : AnalyzeText(text)

InitExtractor == InitWith(NoFile, << NoDir, NoDir, NoDir, NoDir >>)

SpecExtractor == InitExtractor /\ [][ExtractorNext]_vars

----------------------------------------------------------------------------
(* The same program with an environment in which file operations can fail *)

\* profile = VoiceProfile() when the profile file does not parse: json.load raises inside
\* __init__, no object is constructed and the caller keeps what it had
VoiceProfile_init_raises ==
    /\ run.pc = "idle"
    /\ load_raises(disk[profile_file])
    /\ last' = Did("VoiceProfile_raises", << >>, None)
    /\ UNCHANGED <<disk, corpus, clock, obj, profile, run, writer, reflection>>

\* profile.load_profile() on the live object: json.load raises before any field is assigned
LoadProfile_raises ==
    /\ obj = "client"
    /\ load_raises(disk[profile_file])
    /\ last' = Did("load_profile_raises", << >>, None)
    /\ UNCHANGED <<disk, corpus, clock, obj, profile, run, writer, reflection>>

\* profile.save_profile() when the write fails: open raises and the file is as it was, or
\* json.dump raises after open has emptied the file
SaveProfile_raises ==
    /\ obj = "client"
    /\ \/ UNCHANGED disk
       \/ \E written \in Interruptions(profile, clock) :
             disk' = [disk EXCEPT ![profile_file] = interrupted_save(profile, clock, written)]
    /\ last' = Did("save_profile_raises", << >>, None)
    /\ UNCHANGED <<corpus, clock, obj, profile, run, writer, reflection>>

\* evolve_voice when VoiceProfile() raises: the function ends with the exception before
\* the scan
EvolveStart_raises ==
    /\ run.pc = "idle"
    /\ load_raises(disk[profile_file])
    /\ last' = Did("evolve_voice_raises", << >>, None)
    /\ UNCHANGED <<disk, corpus, clock, obj, profile, run, writer, reflection>>

\* evolve_voice when profile.save_profile() raises after the loop: the function ends with
\* the exception, and neither the signature nor the report is produced
EvolveSave_raises ==
    /\ run.pc = "scan"
    /\ run.queue = << >>
    /\ \/ UNCHANGED disk
       \/ \E written \in Interruptions(profile, clock) :
             disk' = [disk EXCEPT ![profile_file] = interrupted_save(profile, clock, written)]
    /\ run' = Idle
    /\ obj' = "none"
    /\ last' = Did("evolve_save_raises", << >>, None)
    /\ UNCHANGED <<corpus, clock, profile, writer, reflection>>

\* writer = AdaptiveWriter() when the file at its path does not parse: json.load raises
\* inside __init__ and no writer is constructed
AdaptiveWriter_init_raises ==
    /\ reflection.pc = "idle"
    /\ load_raises(disk[writer_voice_profile_path])
    /\ last' = Did("AdaptiveWriter_raises", << >>, None)
    /\ UNCHANGED <<disk, corpus, clock, obj, profile, run, writer, reflection>>

\* a file at the Composer's path that holds no document at all
WriterFileEmpty == File([t |-> "truncated", members |-> << >>])

InitFaults == \E wf \in {NoFile, WriterFileEmpty}, c \in Corpora : InitWith(wf, c)

FaultNext ==
    \/ Next
    \/ VoiceProfile_init_raises
    \/ LoadProfile_raises
    \/ SaveProfile_raises
    \/ EvolveStart_raises
    \/ EvolveSave_raises
    \/ AdaptiveWriter_init_raises

FaultSpec == InitFaults /\ [][FaultNext]_vars

-----------------------------------------------------------------------------
(* Properties *)

\* the seven count mappings of a profile
MappingFields ==
    {"sentence_patterns", "recurring_phrases", "metaphor_vocabulary", "opening_patterns",
     "closing_patterns", "rhythmic_preferences", "emotional_registers"}

\* Python's d == e for two mappings: the same keys with the same counts
DictEq(d, e) ==
    /\ KeySet(d) = KeySet(e)
    /\ \A key \in KeySet(d) : Get(d, key, 0) = Get(e, key, 0)

\* p and q agree on the seven mappings and on total_reflections
SameCounts(p, q) ==
    /\ p.total_reflections = q.total_reflections
    /\ \A f \in MappingFields : DictEq(p[f], q[f])

\* from p to q no key is removed, no count decreases, total_reflections does not decrease
Grows(p, q) ==
    /\ p.total_reflections <= q.total_reflections
    /\ \A f \in MappingFields :
          \A key \in KeySet(p[f]) : Has(q[f], key) /\ Get(p[f], key, 0) <= Get(q[f], key, 0)

\* from d to e exactly one key went up by 1 (a new key counts from 0), the others are as before
OneKeyIncremented(d, e) ==
    /\ KeySet(d) \subseteq KeySet(e)
    /\ \E key \in KeySet(e) :
          /\ Get(e, key, 0) = Get(d, key, 0) + 1
          /\ \A other \in KeySet(e) \ {key} : Has(d, other) /\ Get(e, other, 0) = Get(d, other, 0)

\* the profile a load would read from the Analyzer's file on disk d
PersistedOn(d) == load_profile(d[profile_file])

\* the profile a load would read from the Analyzer's file now
Persisted == PersistedOn(disk)

\* the steps that are one call of analyze_text, by a caller or by the Analyzer's loop
AnalyzeOps == {"analyze_text", "evolve_analyze"}
\* the steps that save the profile
SaveOps == {"save_profile", "evolve_save"}
\* the steps that load the profile: the method, and the two constructions that call it
LoadOps == {"load_profile", "VoiceProfile", "evolve_voice"}

\* C1: every call of analyze_text, whatever the text (empty, or without any sentence),
\* raises total_reflections by exactly 1.
C1_TotalPlusOne ==
    [][last'.op \in AnalyzeOps =>
          profile'.total_reflections = profile.total_reflections + 1]_vars

\* a blob without any sentence has been analyzed as the second blob of a profile
C1_Witness ==
    /\ last.op = "analyze_text"
    /\ Sentences(last.text) = << >>
    /\ profile.total_reflections = 2

\* C2: every call of analyze_text raises exactly one key of rhythmic_preferences by 1 and
\* exactly one key of emotional_registers by 1, and leaves their other keys unchanged,
\* also when the text has no sentence.
C2_OneRhythmOneRegister ==
    [][last'.op \in AnalyzeOps =>
          /\ OneKeyIncremented(profile.rhythmic_preferences, profile'.rhythmic_preferences)
          /\ OneKeyIncremented(profile.emotional_registers, profile'.emotional_registers)]_vars

\* a blob without any sentence has been analyzed after a medium one: two rhythm keys exist
C2_Witness ==
    /\ last.op = "analyze_text"
    /\ Sentences(last.text) = << >>
    /\ Get(profile.rhythmic_preferences, "medium", 0) = 1
    /\ Get(profile.rhythmic_preferences, "short", 0) = 1
    /\ Get(profile.emotional_registers, "neutral", 0) = 2

\* C3: after a save, a load reads back the seven mappings (same keys, same counts) and
\* total_reflections exactly as they were in memory.
C3_RoundTrip ==
    last.op \in SaveOps => SameCounts(load_profile(disk[profile_file]), profile)

\* a profile of two blobs, with phrases and metaphors in it, has been saved
C3_Witness ==
    /\ last.op = "save_profile"
    /\ profile.total_reflections = 2
    /\ profile.recurring_phrases # << >>
    /\ profile.metaphor_vocabulary # << >>
    /\ profile.closing_patterns # profile.opening_patterns

ComposerOps ==
    {"get_preferred_structure", "get_preferred_register", "get_preferred_rhythm",
     "get_signature_phrase", "compose_opening", "compose_closing",
     "weave_signature_phrases", "adjust_rhythm", "compose_reflection",
     "reflection_opening", "reflection_body", "reflection_weave", "reflection_rhythm",
     "reflection_closing"}

\* the profile a Composer object holds
WriterProfile(w) ==
    [f \in MappingFields \cup {"total_reflections"} |-> w[f]]

\* C5: none of the Composer's operations (the four queries, compose_opening,
\* compose_closing, weave_signature_phrases, adjust_rhythm, compose_reflection and its
\* steps) changes the profile held in memory or writes the persisted profile.
C5_ComposerReadOnly ==
    [][last'.op \in ComposerOps =>
          /\ WriterProfile(writer') = WriterProfile(writer)
          /\ disk' = disk]_vars

\* a reflection has been composed from a profile of four blobs
C5_Witness ==
    /\ last.op = "compose_reflection"
    /\ last.ret # None
    /\ writer.total_reflections = 4
    /\ writer.recurring_phrases # << >>

\* C6: once an Analyzer run has saved and returned, a Composer constructed afterwards
\* holds the counts of the profile the Analyzer persisted.
C6_ComposerSeesAnalyzerProfile ==
    (last.op = "AdaptiveWriter" /\ disk[signature_file].exists) =>
        SameCounts(writer, Persisted)

\* the key a weighted draw designates: the first, in the mapping's order, whose
\* cumulative count meets or exceeds the draw
FirstReaching(items, rand) ==
    LET reached == {i \in 1..Len(items) :
                       Granularity * SumSeq([j \in 1..i |-> items[j].v]) >= rand}
    IN  items[CHOOSE i \in reached : \A j \in reached : i <= j].k

\* the number of draws, among the Granularity * total equal intervals of (0, total], on
\* which the query with answers answer[rand] gives key
Share(answer, items, key) ==
    Cardinality({rand \in 1..(Granularity * SumSeq(Values(items))) : answer[rand] = key})

\* a query answers by weighted draw: a key of the mapping, the one the draw designates,
\* each key on count / total of the draws
Weighted(answer, items) ==
    /\ \A rand \in Draws(items) \ {0} : answer[rand] = FirstReaching(items, rand)
    /\ \A rand \in Draws(items) : Has(items, answer[rand])
    /\ \A key \in KeySet(items) : Share(answer, items, key) = Granularity * Get(items, key, 0)

\* the answers of the three queries on every draw
StructureAnswers ==
    [rand \in Draws(writer.sentence_patterns) |-> get_preferred_structure(writer, rand)]
RegisterAnswers ==
    [rand \in Draws(writer.emotional_registers) |-> get_preferred_register(writer, rand)]
RhythmAnswers ==
    [rand \in Draws(writer.rhythmic_preferences) |-> get_preferred_rhythm(writer, rand)]

\* C7: on a non-empty category the structure, register and rhythm queries return a key of
\* the category, the first whose cumulative count meets or exceeds the draw, so that each
\* key is returned on count / total of the draws: 3/4 and 1/4 for counts 3 and 1.
C7_WeightedSampling ==
    /\ (last.op = "get_preferred_structure" /\ writer.sentence_patterns # << >>) =>
          /\ Has(writer.sentence_patterns, last.ret)
          /\ last.rand > 0 => last.ret = FirstReaching(writer.sentence_patterns, last.rand)
          /\ Weighted(StructureAnswers, writer.sentence_patterns)
    /\ (last.op = "get_preferred_register" /\ writer.emotional_registers # << >>) =>
          /\ Has(writer.emotional_registers, last.ret)
          /\ last.rand > 0 => last.ret = FirstReaching(writer.emotional_registers, last.rand)
          /\ Weighted(RegisterAnswers, writer.emotional_registers)
    /\ (last.op = "get_preferred_rhythm" /\ writer.rhythmic_preferences # << >>) =>
          /\ Has(writer.rhythmic_preferences, last.ret)
          /\ last.rand > 0 => last.ret = FirstReaching(writer.rhythmic_preferences, last.rand)
          /\ Weighted(RhythmAnswers, writer.rhythmic_preferences)

\* the rhythm query has answered the minority key of a category with counts 3 and 1
C7_Witness ==
    /\ last.op = "get_preferred_rhythm"
    /\ writer.rhythmic_preferences = << [k |-> "long", v |-> 3], [k |-> "medium", v |-> 1] >>
    /\ last.ret = "medium"
    /\ Share(RhythmAnswers, writer.rhythmic_preferences, "long")
          = 3 * Granularity

\* C8: on an empty category the structure query answers declarative_being, the register
\* query contemplative and the rhythm query medium; a Composer constructed without a
\* persisted profile answers all three with these defaults.
C8_EmptyDefaults ==
    /\ (last.op = "get_preferred_structure" /\ writer.sentence_patterns = << >>) =>
          last.ret = "declarative_being"
    /\ (last.op = "get_preferred_register" /\ writer.emotional_registers = << >>) =>
          last.ret = "contemplative"
    /\ (last.op = "get_preferred_rhythm" /\ writer.rhythmic_preferences = << >>) =>
          last.ret = "medium"
    /\ (writer.exists /\ ~disk[writer_voice_profile_path].exists) =>
          /\ \A rand \in Draws(writer.sentence_patterns) :
                get_preferred_structure(writer, rand) = "declarative_being"
          /\ \A rand \in Draws(writer.emotional_registers) :
                get_preferred_register(writer, rand) = "contemplative"
          /\ \A rand \in Draws(writer.rhythmic_preferences) :
                get_preferred_rhythm(writer, rand) = "medium"

\* a Composer constructed without a persisted profile has answered the register query
C8_Witness ==
    /\ last.op = "get_preferred_register"
    /\ ~disk[writer_voice_profile_path].exists
    /\ writer.emotional_registers = << >>
    /\ last.ret = "contemplative"

\* C9: get_signature_phrase answers none exactly when no phrase has a count of 2 or more
\* (in particular when every count is 1), and otherwise a phrase of the mapping whose
\* count is 2 or more.
C9_SignaturePhrase ==
    last.op = "get_signature_phrase" =>
        /\ last.ret = None <=>
              ~ \E i \in 1..Len(writer.recurring_phrases) : writer.recurring_phrases[i].v >= 2
        /\ last.ret # None =>
              /\ Has(writer.recurring_phrases, last.ret)
              /\ Get(writer.recurring_phrases, last.ret, 0) >= 2

\* the query has answered none on a non-empty mapping whose counts are all 1
C9_Witness ==
    /\ last.op = "get_signature_phrase"
    /\ writer.recurring_phrases # << >>
    /\ \A i \in 1..Len(writer.recurring_phrases) : writer.recurring_phrases[i].v = 1
    /\ last.ret = None

\* C10: when the rhythm query resolves to medium, by draw or by default, adjust_rhythm
\* returns its input text unchanged, character for character.
C10_MediumIsIdentity ==
    (last.op = "adjust_rhythm" /\ get_preferred_rhythm(writer, last.rand) = "medium") =>
        last.ret = last.text

\* medium has been drawn from a learned category for a text whose sentences, rejoined,
\* would not give the text back
C10_Witness ==
    /\ last.op = "adjust_rhythm"
    /\ writer.rhythmic_preferences # << >>
    /\ get_preferred_rhythm(writer, last.rand) = "medium"
    /\ last.text = WT_notes
    /\ join(S_Space, RhythmSentences(last.text)) # last.text
    /\ last.ret = WT_notes

\* what analyze_text of text adds to an empty profile
Delta(text) == analyze_text(EmptyProfile, text)

\* q is p with the counts and the total of d added, key by key
Adds(p, d, q) ==
    /\ q.total_reflections = p.total_reflections + d.total_reflections
    /\ \A f \in MappingFields :
          /\ KeySet(q[f]) = KeySet(p[f]) \cup KeySet(d[f])
          /\ \A key \in KeySet(q[f]) : Get(q[f], key, 0) = Get(p[f], key, 0) + Get(d[f], key, 0)

\* C11: analyze_text is additive: what a blob adds to every count and to total_reflections
\* is what it adds to an empty profile, whatever the profile held before; so the same blob
\* analyzed twice from empty doubles every count, and two blobs give the same counts in
\* either order.
C11_Additive ==
    [][last'.op \in AnalyzeOps =>
          \E before \in {profile}, after \in {profile'}, d \in {Delta(last'.text)} :
             /\ Adds(before, d, after)
             /\ (last.op \in AnalyzeOps /\ SameCounts(before, Delta(last.text))) =>
                   /\ SameCounts(after, analyze_text(d, last.text))
                   /\ last'.text = last.text =>
                         Adds(before, before, after) /\ after.total_reflections = 2]_vars

\* the same blob, one with phrases and three sentences, has been analyzed twice from empty
C11_Witness ==
    /\ last.op = "analyze_text"
    /\ last.text = T_scenario
    /\ profile.total_reflections = 2
    /\ Adds(Delta(T_scenario), Delta(T_scenario), profile)
    /\ Get(profile.sentence_patterns, "declarative_being", 0) = 4

\* content holds one of the three markers at some position
HasMarker(content) ==
    \E i \in 1..Len(authorship_markers) :
       \E at \in 1..Len(content) :
          /\ at + Len(authorship_markers[i]) - 1 <= Len(content)
          /\ \A j \in 1..Len(authorship_markers[i]) :
                content[at + j - 1] = authorship_markers[i][j]

\* the number of files of the scan that can be read and hold a marker
MarkedCount(files) ==
    Cardinality({i \in 1..Len(files) : files[i].readable /\ HasMarker(files[i].content)})

\* C12: in an Analyzer run a file that is read is analyzed exactly when its content holds
\* one of the three markers; at the end of the scan files_processed is the number of such
\* files (0 for an empty source set) and total_reflections has grown by files_processed.
C12_MarkedFilesOnly ==
    [][/\ last'.op \in {"evolve_analyze", "evolve_skip"} =>
             (last'.op = "evolve_analyze" <=> HasMarker(last'.text))
       /\ last'.op = "evolve_save" =>
             /\ run.files_processed = MarkedCount(ScanOrder(corpus))
             /\ profile.total_reflections = Persisted.total_reflections + run.files_processed]_vars

\* a run over a marked file, an unmarked file and a file signed with the second marker
\* has counted two files
C12_Witness ==
    /\ last.op = "evolve_save"
    /\ run.files_processed = 2
    /\ \E i \in 1..Len(ScanOrder(corpus)) :
          ScanOrder(corpus)[i].readable /\ ~HasMarker(ScanOrder(corpus)[i].content)
    /\ profile.total_reflections = 2

\* the steps an Analyzer run in state r still has to take: one per file left to scan,
\* the save and the report
RunRemaining(r) ==
    IF r.pc = "scan" THEN Len(r.queue) + 2 ELSE IF r.pc = "report" THEN 1 ELSE 0

\* the scan of c meets a file that cannot be read
HasUnreadable(c) == \E i \in 1..Len(ScanOrder(c)) : ~ScanOrder(c)[i].readable

\* C13: when the read of a source file fails during an Analyzer run, the file adds nothing
\* to the profile and does not count in files_processed, the scan goes on with the files
\* that remain (every step of the run, the failing one included, leaves one step less to
\* the report), every readable marked file is processed, and the run still saves the
\* profile and writes the report.
C13_SkipAndContinue ==
    /\ [][last'.op = "evolve_error" =>
             /\ profile' = profile
             /\ run'.files_processed = run.files_processed
             /\ run'.pc = "scan"
             /\ run'.queue = Tail(run.queue)]_vars
    /\ [][(run.pc # "idle" /\ run' # run) => RunRemaining(run') = RunRemaining(run) - 1]_vars
    /\ [][(last'.op = "evolve_save" /\ HasUnreadable(corpus)) =>
             /\ run.files_processed = MarkedCount(ScanOrder(corpus))
             /\ SameCounts(PersistedOn(disk'), profile)]_vars
    /\ (run.pc = "scan" /\ run.queue = << >> /\ HasUnreadable(corpus))
          ~> (last.op = "evolve_report" /\ disk[signature_file].exists)

\* a run whose first file could not be read has analyzed the file after it and saved
C13_Witness ==
    /\ last.op = "evolve_save"
    /\ ScanOrder(corpus) # << >>
    /\ ~ScanOrder(corpus)[1].readable
    /\ run.files_processed = 1
    /\ Persisted.total_reflections >= 1

\* the operations that ended with an uncaught exception
RaisedOps ==
    {"VoiceProfile_raises", "load_profile_raises", "save_profile_raises",
     "evolve_voice_raises", "evolve_save_raises", "AdaptiveWriter_raises"}

\* C14: nothing is fatal: whatever fails (loading the persisted profile, reading a source
\* file, finding no eligible file, saving the profile), the Analyzer run or the Composer
\* operation that was requested completes: no operation ends with an exception.
C14_NothingFatal == last.op \notin RaisedOps

\* C15: a save either fully replaces the persisted profile or leaves the previously
\* persisted profile untouched, and no later load can observe a profile file that is
\* empty or partly written.
C15_SaveAtomic ==
    /\ [][\/ disk'[profile_file] = disk[profile_file]
          \/ disk'[profile_file] = save_profile(profile, clock)]_vars
    /\ [](~load_raises(disk[profile_file]))

\* C16: the lifecycle of an Analyzer run: the profile is loaded once, by the step that
\* starts the run; during the run it is changed only by the analysis of a file; the profile
\* file is written by one step only, the one that follows the last file of the scan and
\* precedes the report, and that step writes the profile as the scan left it; the report is
\* produced from that profile, whose counts are the persisted ones.
C16_Lifecycle ==
    [][/\ last'.op = "evolve_voice" =>
             run.pc = "idle" /\ run'.pc = "scan" /\ profile' = Persisted /\ disk' = disk
       /\ run.pc # "idle" =>
             /\ last'.op \notin LoadOps
             /\ profile' # profile => last'.op = "evolve_analyze" /\ run.pc = "scan"
             /\ run' = run => disk' = disk
             /\ run' # run =>
                   << run.pc, run'.pc >> \in
                      { << "scan", "scan" >>, << "scan", "report" >>, << "report", "idle" >> }
             /\ (run' # run /\ run.pc = "scan" /\ run'.pc = "scan") =>
                   disk' = disk /\ run.queue # << >> /\ run'.queue = Tail(run.queue)
             /\ (run.pc = "scan" /\ run'.pc = "report") =>
                   /\ run.queue = << >>
                   /\ last'.op = "evolve_save"
                   /\ disk'[profile_file] = save_profile(profile, clock)
                   /\ profile' = profile
             /\ (run' # run /\ run.pc = "report") =>
                   /\ last'.op = "evolve_report"
                   /\ disk'[profile_file] = disk[profile_file]
                   /\ SameCounts(Persisted, profile)
                   /\ disk'[signature_file] = File(generate_voice_signature(profile))]_vars

\* a run that analyzed two files, persisted and reported
C16_Witness ==
    /\ last.op = "evolve_report"
    /\ Persisted.total_reflections = 2
    /\ SameCounts(Persisted, profile)
    /\ disk[signature_file].exists

\* the words of a list, as a set
WordSet(xs) == {xs[i] : i \in 1..Len(xs)}

\* the labels of the classification, in the order they are tried
StructureLabels ==
    << "question", "declarative_being", "declarative_action", "speculative", "contrastive",
       "causal", "other" >>

\* whether a label's condition holds of a sentence: first is its lower-cased first word,
\* tokens are its lower-cased words
LabelApplies(label, first, tokens) ==
    LET being == tokens \cap WordSet(structure_words.being) # {} IN
    CASE label = "question"           -> first \in WordSet(structure_words.question)
      [] label = "declarative_being"  -> first \in WordSet(structure_words.subject) /\ being
      [] label = "declarative_action" -> first \in WordSet(structure_words.subject) /\ ~being
      [] label = "speculative"        -> first \in WordSet(structure_words.speculative)
      [] label = "contrastive"        -> first \in WordSet(structure_words.contrastive)
      [] label = "causal"             -> first \in WordSet(structure_words.causal)
      [] OTHER                        -> TRUE

\* the labels whose condition holds of a sentence that has a word
LabelsOf(sentence) ==
    LET words == split(lower(sentence)) IN
    {i \in 1..Len(StructureLabels) : LabelApplies(StructureLabels[i], words[1], WordSet(words))}

\* the label the classification gives: the first, in the order, whose condition holds
LabelOf(sentence) ==
    StructureLabels[CHOOSE i \in LabelsOf(sentence) : \A j \in LabelsOf(sentence) : i <= j]

\* how many sentences of a text get a label
Labelled(text, label) ==
    Cardinality({i \in 1..Len(Sentences(text)) : LabelOf(Sentences(text)[i]) = label})

\* C17: every sentence analyze_text records has a first word and gets exactly one label,
\* the first in the order question, declarative_being, declarative_action, speculative,
\* contrastive, causal, other whose condition holds of its lower-cased first word (and, for
\* the two declarative labels, of the presence of a token is/am/are); every call adds to
\* sentence_patterns one count per sentence under that label, and 'empty' is never a key.
C17_StructureLabels ==
    /\ [][last'.op \in AnalyzeOps =>
            \E before \in {profile.sentence_patterns}, after \in {profile'.sentence_patterns},
               text \in {last'.text} :
               /\ \A i \in 1..Len(Sentences(text)) : split(lower(Sentences(text)[i])) # << >>
               /\ WordSet(Keys(after)) \subseteq WordSet(StructureLabels)
               /\ \A i \in 1..Len(StructureLabels) :
                     Get(after, StructureLabels[i], 0) =
                        Get(before, StructureLabels[i], 0) + Labelled(text, StructureLabels[i])]_vars
    /\ [](~Has(profile.sentence_patterns, "empty"))

\* a profile that holds every label: the subjects with and without a token of being, and
\* the openers of the other five
C17_Witness ==
    /\ last.op = "analyze_text"
    /\ WordSet(Keys(profile.sentence_patterns)) = WordSet(StructureLabels)
    /\ Get(profile.sentence_patterns, "declarative_action", 0) = 2
    /\ Get(profile.sentence_patterns, "declarative_being", 0) = 2
    /\ Get(profile.sentence_patterns, "contrastive", 0) = 4

\* the four word sets, in the order their scores are compared
RegisterOrder == << "contemplative", "assertive", "tentative", "emotional" >>
RegisterSets == WordSet(RegisterOrder)
Rank(set) == CHOOSE i \in 1..Len(RegisterOrder) : RegisterOrder[i] = set

\* the number of places of hay at which needle occurs
Occurrences(hay, needle) ==
    Cardinality({i \in 1..(Len(hay) - Len(needle) + 1) :
                    SubSeq(hay, i, i + Len(needle) - 1) = needle})

\* the occurrences in the text, lower-cased, of the words of each set
OccurrenceScores(text) ==
    [set \in RegisterSets |->
        SumSeq([i \in 1..Len(register_words[set]) |->
                   Occurrences(lower(text), register_words[set][i])])]

\* the scores the code computes for the text
CodeScores(text) ==
    [set \in RegisterSets |-> IndicatorCount(register_words[set], lower(text))]

\* w is the register the scores elect: neutral when all are 0, else the set of highest
\* score that no earlier set equals
Wins(w, scores) ==
    \/ w = "neutral" /\ \A set \in RegisterSets : scores[set] = 0
    \/ /\ w \in RegisterSets
       /\ scores[w] > 0
       /\ \A set \in RegisterSets : scores[set] <= scores[w]
       /\ \A set \in RegisterSets : Rank(set) < Rank(w) => scores[set] < scores[w]

\* the register whose count a step raised
Recorded(before, after) ==
    CHOOSE k \in WordSet(Keys(after)) : Get(after, k, 0) = Get(before, k, 0) + 1

\* C18: the score of each of the four word sets is the number of occurrences of its words
\* in the lower-cased text, a word that occurs k times contributing k; so the register an
\* analysis records is the one these occurrence counts elect.
C18_ScoreIsOccurrences ==
    [][last'.op \in AnalyzeOps =>
          \E text \in {last'.text} :
             /\ CodeScores(text) = OccurrenceScores(text)
             /\ Wins(Recorded(profile.emotional_registers, profile'.emotional_registers),
                     OccurrenceScores(text))]_vars

\* C19: the register an analysis records is the word set of highest score, the earliest in
\* the order contemplative, assertive, tentative, emotional among those that share it, and
\* it is neutral if and only if all four scores are 0.
C19_RegisterWinner ==
    [][last'.op \in AnalyzeOps =>
          \E scores \in {CodeScores(last'.text)},
             w \in {Recorded(profile.emotional_registers, profile'.emotional_registers)} :
             /\ Wins(w, scores)
             /\ w = detect_emotional_register(last'.text)
             /\ w = "neutral" <=> \A set \in RegisterSets : scores[set] = 0]_vars

\* a text in which two sets share the highest score, recorded under the earlier of them,
\* after one whose scores are all 0
C19_Witness ==
    /\ last.op = "analyze_text"
    /\ profile.total_reflections = 2
    /\ Has(profile.emotional_registers, "neutral")
    /\ \E s1, s2 \in RegisterSets :
          /\ Rank(s1) < Rank(s2)
          /\ CodeScores(last.text)[s1] = CodeScores(last.text)[s2]
          /\ Wins(s1, CodeScores(last.text))
          /\ Has(profile.emotional_registers, s1)
          /\ ~Has(profile.emotional_registers, s2)

\* n: the number of sentences of a text
SentenceCount(text) == Len(Sentences(text))

\* W: the number of words over all the sentences of a text
WordCount(text) ==
    SumSeq([i \in 1..SentenceCount(text) |-> Len(split(Sentences(text)[i]))])

\* the bucket of W words in n sentences
Bucket(W, n) ==
    IF n = 0 \/ W < 8 * n THEN "short"
    ELSE IF W < 15 * n THEN "medium"
    ELSE "long"

\* C20: with W the number of words over all sentences and n the number of sentences, the
\* rhythm bucket an analysis records is short when n = 0 or W < 8n, medium when
\* 8n <= W < 15n, long when W >= 15n.
C20_RhythmBucket ==
    [][last'.op \in AnalyzeOps =>
          \E W \in {WordCount(last'.text)}, n \in {SentenceCount(last'.text)},
             bucket \in {Recorded(profile.rhythmic_preferences, profile'.rhythmic_preferences)} :
             /\ bucket = Bucket(W, n)
             /\ (n = 0 \/ W < 8 * n) => bucket = "short"
             /\ (n > 0 /\ 8 * n <= W /\ W < 15 * n) => bucket = "medium"
             /\ (n > 0 /\ W >= 15 * n) => bucket = "long"]_vars

\* two sentences that average exactly 8 words, recorded as medium, in a profile that also
\* holds a long and no short
C20_Witness ==
    /\ last.op = "analyze_text"
    /\ SentenceCount(last.text) = 2
    /\ WordCount(last.text) = 16
    /\ Keys(profile.rhythmic_preferences) = << "long", "medium" >>

\* the first n characters of s, all of s when it is shorter
FirstChars(s, n) == [i \in 1..(IF Len(s) < n THEN Len(s) ELSE n) |-> s[i]]

\* the last n characters of s, all of s when it is shorter
LastChars(s, n) ==
    IF Len(s) <= n THEN s ELSE [i \in 1..n |-> s[Len(s) - n + i]]

\* from d to e the count of key went up by 1, and nothing else changed
KeyIncremented(d, e, key) ==
    /\ KeySet(e) = KeySet(d) \cup {key}
    /\ Get(e, key, 0) = Get(d, key, 0) + 1
    /\ \A other \in KeySet(d) \ {key} : Get(e, other, 0) = Get(d, other, 0)

\* C21: an analysis of a blob with at least one sentence raises by 1 exactly one key of
\* opening_patterns, the first 50 characters of its first sentence, and exactly one key of
\* closing_patterns, the last 50 characters of its last sentence; an analysis of a blob
\* without a sentence leaves both mappings as they were.
C21_OpeningClosing ==
    [][last'.op \in AnalyzeOps =>
          \E sentences \in {Sentences(last'.text)} :
             IF sentences # << >>
             THEN /\ KeyIncremented(profile.opening_patterns, profile'.opening_patterns,
                                    FirstChars(sentences[1], 50))
                  /\ KeyIncremented(profile.closing_patterns, profile'.closing_patterns,
                                    LastChars(sentences[Len(sentences)], 50))
             ELSE /\ profile'.opening_patterns = profile.opening_patterns
                  /\ profile'.closing_patterns = profile.closing_patterns]_vars

\* a blob whose first and last sentences are longer than 50 characters, analyzed twice
C21_Witness ==
    /\ last.op = "analyze_text"
    /\ Len(Sentences(last.text)) = 2
    /\ Len(Sentences(last.text)[1]) > 50
    /\ Len(Sentences(last.text)[2]) > 50
    /\ Get(profile.opening_patterns, FirstChars(Sentences(last.text)[1], 50), 0) = 2
    /\ Get(profile.closing_patterns, LastChars(Sentences(last.text)[2], 50), 0) = 2
    /\ Len(Keys(profile.closing_patterns)[1]) = 50

\* listed are the n keys of d of highest count (all its keys when it has fewer), in
\* descending order of count, keys of equal count in the order d holds them
TopKeys(d, n, listed) ==
    /\ Len(listed) = (IF Len(d) < n THEN Len(d) ELSE n)
    /\ \A i \in 1..Len(listed) : Has(d, listed[i])
    /\ \A i, j \in 1..Len(listed) :
          i < j => \/ Get(d, listed[i], 0) > Get(d, listed[j], 0)
                   \/ /\ Get(d, listed[i], 0) = Get(d, listed[j], 0)
                      /\ IndexOf(d, listed[i]) < IndexOf(d, listed[j])
    /\ \A key \in KeySet(d) \ WordSet(listed) :
          \A i \in 1..Len(listed) :
             \/ Get(d, key, 0) < Get(d, listed[i], 0)
             \/ /\ Get(d, key, 0) = Get(d, listed[i], 0)
                /\ IndexOf(d, listed[i]) < IndexOf(d, key)

\* every entry of a list of the report carries a percentage, that of its count in total
WithPercentages(entries, d, total) ==
    \A i \in 1..Len(entries) :
       /\ "pct" \in DOMAIN entries[i]
       /\ entries[i].pct = percentage(Get(d, entries[i].k, 0), total)

\* C22: the report evolve_voice writes lists the 5 highest-count sentence structures, the
\* 10 highest-count recurring phrases and the 8 highest-count metaphors (fewer only when
\* the category has fewer keys), each list in descending count order with equal counts in
\* insertion order, and every listed entry carries its percentage of total_reflections.
C22_ReportSelection ==
    [][last'.op = "evolve_report" =>
          \E report \in {disk'[signature_file].data} :
             /\ TopKeys(profile.sentence_patterns, 5, Keys(report.structures))
             /\ TopKeys(profile.recurring_phrases, 10, Keys(report.phrases))
             /\ Len(report.metaphors) =
                   (IF Len(profile.metaphor_vocabulary) < 8
                    THEN Len(profile.metaphor_vocabulary) ELSE 8)
             /\ WithPercentages(report.structures, profile.sentence_patterns,
                                profile.total_reflections)
             /\ WithPercentages(report.phrases, profile.recurring_phrases,
                                profile.total_reflections)
             /\ WithPercentages(report.metaphors, profile.metaphor_vocabulary,
                                profile.total_reflections)]_vars

\* the canned opening lines of a register: its own when it has a table, the contemplative
\* ones when it has none
CannedOpenings(register) ==
    WordSet(IF Has(openings, register) THEN Get(openings, register, << >>)
            ELSE Get(openings, "contemplative", << >>))

DotSegments(text) == split_char(text, ".")

\* woven is text with the phrase spliced into its middle segment: as many segments, all
\* but the one at index segment_count // 2 (counted from 0) the same, that one its
\* trimmed content, a space and the capitalized phrase
Spliced(text, woven, phrase) ==
    \E segments \in {DotSegments(text)}, after \in {DotSegments(woven)} :
       /\ Len(after) = Len(segments)
       /\ \A i \in 1..Len(segments) :
             after[i] = IF i = (Len(segments) \div 2) + 1
                        THEN strip(segments[i]) \o <<" ">> \o capitalize(phrase)
                        ELSE segments[i]

\* C24: weave_signature_phrases returns its input unchanged when the 0.2 branch is not
\* taken; it returns it changed only if some phrase of count >= 2 is not a substring of the
\* lower-cased text and the text has more than 2 '.'-segments, and then the result is the
\* text with that phrase spliced into its middle segment.
C24_WeaveFrame ==
    /\ writer.exists =>
          \A text \in WriterTexts, rand \in PhraseDraws(writer) :
             weave_signature_phrases(writer, text, FALSE, rand) = text
    /\ (last.op = "weave_signature_phrases" /\ last.ret # last.text) =>
          /\ Len(DotSegments(last.text)) > 2
          /\ \E phrase \in KeySet(writer.recurring_phrases) :
                /\ Get(writer.recurring_phrases, phrase, 0) >= 2
                /\ phrase = get_signature_phrase(writer, last.rand)
                /\ ~Contains(lower(last.text), phrase)
                /\ Spliced(last.text, last.ret, phrase)

\* a text of 4 segments returned with a phrase spliced into the segment at index 2, by a
\* writer one of whose frequent phrases the text already holds
C24_Witness ==
    /\ last.op = "weave_signature_phrases"
    /\ last.ret # last.text
    /\ Len(DotSegments(last.text)) = 4
    /\ DotSegments(last.ret)[3] # DotSegments(last.text)[3]
    /\ \E held \in KeySet(writer.recurring_phrases) :
          Get(writer.recurring_phrases, held, 0) >= 2 /\ Contains(lower(last.text), held)

\* the comma-join of two sentences: the first without its final '.', ', ', the second
CommaJoin(first, second) ==
    rstrip_chars(first, {"."}) \o <<",", " ">> \o lstrip(second)

\* the output elements when the sentences at the indexes in merged are each joined with
\* their successor: one element per sentence that is not the second half of a merge
MergedElements(sentences, merged) ==
    LET heads == SelectSeq([i \in 1..Len(sentences) |-> i], LAMBDA i : (i - 1) \notin merged)
    IN  [k \in 1..Len(heads) |->
            IF heads[k] \in merged
            THEN CommaJoin(sentences[heads[k]], sentences[heads[k] + 1])
            ELSE sentences[heads[k]]]

\* the sets of merge positions the long mode allows: never the last sentence, never the
\* second half of another merge, only sentences of fewer than 8 words
Mergings(sentences) ==
    {merged \in SUBSET (1..(Len(sentences) - 1)) :
        \A i \in merged : (i + 1) \notin merged /\ Len(split(sentences[i])) < 8}

\* C25: in long mode the result of adjust_rhythm is the space-join of output elements that
\* hold every input sentence exactly once and in order, each element a single sentence or
\* the comma-join of two adjacent sentences whose first has fewer than 8 words; the last
\* sentence is never the first half of a merge and no sentence is in two merges.
C25_LongMerges ==
    (last.op = "adjust_rhythm" /\ get_preferred_rhythm(writer, last.rand) = "long") =>
       \E sentences \in {RhythmSentences(last.text)} :
          \E merged \in Mergings(sentences) :
             last.ret = join(<<" ">>, MergedElements(sentences, merged))

\* three short sentences, the first two merged and the third kept
C25_Witness ==
    /\ last.op = "adjust_rhythm"
    /\ get_preferred_rhythm(writer, last.rand) = "long"
    /\ Len(RhythmSentences(last.text)) = 3
    /\ last.ret = join(<<" ">>, MergedElements(RhythmSentences(last.text), {1}))

\* the two pieces of a sentence split at word index word_count // 2: its first words,
\* space-joined and closed by a '.', and its other words, space-joined
Halves(sentence) ==
    LET words == split(sentence)
        mid == Len(words) \div 2
    IN  << join(<<" ">>, [i \in 1..mid |-> words[i]]) \o <<".">>,
           join(<<" ">>, [i \in 1..(Len(words) - mid) |-> words[mid + i]]) >>

\* the output sentences when the sentences at the indexes in broken are split
BrokenElements(sentences, broken) ==
    Flatten([i \in 1..Len(sentences) |->
                IF i \in broken THEN Halves(sentences[i]) ELSE << sentences[i] >>])

\* the words of the two pieces, the '.' that closes the first piece taken off
WordsOfHalves(halves) ==
    LET first == split(halves[1]) IN
    [first EXCEPT ![Len(first)] = rstrip_chars(@, {"."})] \o split(halves[2])

\* C26: in short mode the result of adjust_rhythm is the space-join of the input sentences,
\* each unchanged or, only if it has more than 15 words, replaced by its two pieces split
\* once at word index word_count // 2; the pieces hold the sentence's words in order and
\* at least 8 words each, and the output has at least as many sentences as the input.
C26_ShortSplits ==
    (last.op = "adjust_rhythm" /\ get_preferred_rhythm(writer, last.rand) = "short") =>
       \E sentences \in {RhythmSentences(last.text)} :
          \E broken \in SUBSET {i \in 1..Len(sentences) : Len(split(sentences[i])) > 15} :
             /\ last.ret = join(<<" ">>, BrokenElements(sentences, broken))
             /\ Len(BrokenElements(sentences, broken)) >= Len(sentences)
             /\ \A i \in broken :
                   /\ WordsOfHalves(Halves(sentences[i])) = split(sentences[i])
                   /\ Len(split(Halves(sentences[i])[1])) >= 8
                   /\ Len(split(Halves(sentences[i])[2])) >= 8

\* a sentence of 15 words kept and one of 17 words split into 8 and 9
C26_Witness ==
    /\ last.op = "adjust_rhythm"
    /\ get_preferred_rhythm(writer, last.rand) = "short"
    /\ \E sentences \in {RhythmSentences(last.text)} :
          /\ Len(sentences) = 2
          /\ Len(split(sentences[1])) = 15
          /\ Len(split(sentences[2])) = 17
          /\ last.ret = join(<<" ">>, BrokenElements(sentences, {2}))
          /\ Len(split(Halves(sentences[2])[1])) = 8

\* a fragment has a qualifying sentence: one longer than 20 characters once trimmed
Qualifies(fragment) ==
    \E i \in 1..Len(split_char(fragment.content, ".")) :
       Len(strip(split_char(fragment.content, ".")[i])) > 20

\* the insight of an essence: its line in the table, the default line otherwise
InsightOf(essence) ==
    IF essence \in KeySet(essence_reflections)
    THEN Get(essence_reflections, essence, << >>) ELSE default_essence_thought

\* the body before weaving: one entry per qualifying fragment, in the fragments' order,
\* then the insight
ExpectedBody(memory_fragments, essence) ==
    LET qualifying == SelectSeq(memory_fragments, Qualifies)
        entries == [k \in 1..Len(qualifying) |-> BodyPart(qualifying[k])[1]]
    IN  join(<<"\n", "\n">>, entries)
           \o <<"\n","\n","I"," ","n","o","t","i","c","e"," ","t","h","a","t"," ">>
           \o InsightOf(essence) \o <<".">>

\* the order of the steps of compose_reflection
ReflectionOrder == << "opening", "body", "weave", "rhythm", "closing", "assemble", "idle" >>
StepAfter(pc) ==
    ReflectionOrder[(CHOOSE i \in 1..Len(ReflectionOrder) : ReflectionOrder[i] = pc) + 1]

\* C27: compose_reflection takes its steps in the order opening, body, weaving, rhythm,
\* closing, assembly; the body is one entry per fragment that has a qualifying sentence,
\* in fragment order, followed by the insight of the essence (the default one for an essence
\* outside the table), then passed through weave_signature_phrases and then through
\* adjust_rhythm; no step after the one that sets them changes the opening or the closing,
\* and the result is opening, body, closing in that order.
C27_ReflectionAssembly ==
    [][(reflection.pc # "idle" /\ reflection' # reflection) =>
          /\ reflection'.pc = StepAfter(reflection.pc)
          /\ reflection.pc # "opening" /\ reflection'.pc # "idle" =>
                reflection'.opening = reflection.opening
          /\ reflection.pc \notin {"closing", "assemble"} => reflection'.closing = << >>
          /\ reflection.pc \notin {"body", "weave", "rhythm", "assemble"} =>
                reflection'.body = reflection.body
          /\ reflection.pc = "opening" =>
                \E rand \in Draws(writer.emotional_registers) :
                   reflection'.opening \in
                      KeySet(writer.opening_patterns)
                         \cup CannedOpenings(get_preferred_register(writer, rand))
          /\ reflection.pc = "body" =>
                reflection'.body =
                   ExpectedBody(reflection.memory_fragments, reflection.essence)
          /\ reflection.pc = "weave" =>
                \E chance \in BOOLEAN, rand \in PhraseDraws(writer) :
                   reflection'.body =
                      weave_signature_phrases(writer, reflection.body, chance, rand)
          /\ reflection.pc = "rhythm" =>
                \E rand \in Draws(writer.rhythmic_preferences),
                   coins \in SUBSET (1..Len(RhythmSentences(reflection.body))) :
                   reflection'.body = adjust_rhythm(writer, reflection.body, rand, coins)
          /\ reflection.pc = "closing" =>
                reflection'.closing \in
                   KeySet(writer.closing_patterns) \cup WordSet(closings)
          /\ reflection.pc = "assemble" =>
                /\ last'.op = "compose_reflection"
                /\ last'.ret = reflection.opening \o <<"\n", "\n">> \o reflection.body
                                   \o <<"\n", "\n">> \o reflection.closing]_vars

\* a reflection about to be assembled: three fragments of which two qualify, an essence
\* outside the table, and a body that weaving or rhythm changed
C27_Witness ==
    /\ reflection.pc = "assemble"
    /\ Len(reflection.memory_fragments) = 3
    /\ Len(SelectSeq(reflection.memory_fragments, Qualifies)) = 2
    /\ reflection.essence \notin KeySet(essence_reflections)
    /\ reflection.body # ExpectedBody(reflection.memory_fragments, reflection.essence)
    /\ reflection.opening # << >>
    /\ reflection.closing # << >>

\* the sum of the counts of a mapping
Total(d) == SumSeq(Values(d))

\* the analyses a profile counts that recorded no opening: total_reflections less the
\* sum of the opening counts
Silent(p) == p.total_reflections - Total(p.opening_patterns)

\* C28: in every profile, in memory or persisted, the rhythm counts and the register
\* counts each sum to total_reflections, and the opening counts and the closing counts have
\* the same sum, at most total_reflections; the difference grows by 1 exactly at the
\* analysis of a blob without a sentence, is carried over unchanged by a save and a load,
\* and no file evolve_voice analyzes is without a sentence.
C28_CountConsistency ==
    /\ [](\A p \in {profile, Persisted} :
             /\ Total(p.rhythmic_preferences) = p.total_reflections
             /\ Total(p.emotional_registers) = p.total_reflections
             /\ Total(p.opening_patterns) = Total(p.closing_patterns)
             /\ Silent(p) >= 0)
    /\ [][/\ last'.op \in AnalyzeOps =>
                Silent(profile') =
                   Silent(profile) + (IF Sentences(last'.text) = << >> THEN 1 ELSE 0)
          /\ last'.op = "evolve_analyze" => Sentences(last'.text) # << >>
          /\ last'.op \in SaveOps => Silent(PersistedOn(disk')) = Silent(profile)
          /\ last'.op \in LoadOps => Silent(profile') = Silent(Persisted)]_vars

\* a profile loaded back after two analyses, one of them of a blob without a sentence
C28_Witness ==
    /\ last.op = "load_profile"
    /\ profile.total_reflections = 2
    /\ Total(profile.rhythmic_preferences) = 2
    /\ Total(profile.opening_patterns) = 1
    /\ Total(profile.closing_patterns) = 1

\* the profile one run over the corpus builds from the empty profile
FirstRun(c) ==
    AnalyzeAll(EmptyProfile, [i \in 1..Len(Eligible(c)) |-> Eligible(c)[i].content])

\* p holds n times the counts of first: the same keys (none when n = 0), each count and
\* total_reflections multiplied by n
Scaled(first, p, n) ==
    /\ p.total_reflections = n * first.total_reflections
    /\ \A f \in MappingFields :
          /\ KeySet(p[f]) = (IF n = 0 THEN {} ELSE KeySet(first[f]))
          /\ \A key \in KeySet(p[f]) : Get(p[f], key, 0) = n * Get(first[f], key, 0)

\* C29: every run analyzes every eligible file again on top of the profile it loaded: the
\* profile a run persists is the one persisted before it plus the counts of a first run
\* over the corpus; so when the persisted profile holds n times the counts of a first run
\* (n = 0 with nothing persisted), the run leaves n+1 times those counts, and
\* total_reflections = (n+1)*k for k eligible files.
C29_ReanalysisEveryRun ==
    [][last'.op = "evolve_save" =>
          \E first \in {FirstRun(corpus)}, before \in {Persisted},
             after \in {PersistedOn(disk')} :
             /\ Adds(before, first, after)
             /\ first.total_reflections = Len(Eligible(corpus))
             /\ \A n \in 0..MaxClock :
                   Scaled(first, before, n) =>
                      /\ Scaled(first, after, n + 1)
                      /\ after.total_reflections = (n + 1) * Len(Eligible(corpus))]_vars

\* the second run over a corpus with one eligible file has persisted twice the counts of
\* the first
C29_Witness ==
    /\ last.op = "evolve_save"
    /\ Len(Eligible(corpus)) = 1
    /\ Persisted.total_reflections = 2
    /\ Scaled(FirstRun(corpus), Persisted, 2)

\* what the report shows for a last_evolution value
ShownAs(last_evolution) == IF last_evolution = None THEN Initial ELSE last_evolution

\* C30: a save writes the current time as last_evolution into the file and leaves the
\* in-memory last_evolution as it was; a run keeps the last_evolution it loaded at its
\* start up to its report, which therefore shows that value ('Initial' when nothing was
\* persisted before the run) and not the time of the save the run just performed.
C30_StaleLastEvolution ==
    [][/\ last'.op \in SaveOps =>
             /\ profile'.last_evolution = profile.last_evolution
             /\ PersistedOn(disk').last_evolution = strftime(clock)
       /\ last'.op = "evolve_voice" => profile'.last_evolution = Persisted.last_evolution
       /\ (run.pc # "idle" /\ run'.pc # "idle") =>
             profile'.last_evolution = profile.last_evolution
       /\ last'.op = "evolve_report" =>
             \E shown \in {disk'[signature_file].data.last_updated} :
                /\ shown = ShownAs(profile.last_evolution)
                /\ shown # Persisted.last_evolution
                /\ profile.last_evolution = None => shown = Initial]_vars

\* the report of a second run: it shows the time of the first save while the file holds
\* the time of the second
C30_Witness ==
    /\ last.op = "evolve_report"
    /\ disk[signature_file].data.last_updated = strftime(1)
    /\ Persisted.last_evolution = strftime(2)

=============================================================================
